---- MODULE Spec2Model ----
(***************************************************************************)
(* Master-data service of the POS backend: the category discount and the  *)
(* store discount collections, their tenant-scoped repositories and the    *)
(* services on top of them.  A request is a coroutine: every `await` of a  *)
(* repository call is one atomic database operation, and other requests    *)
(* may run between two awaits of the same request.                         *)
(*                                                                         *)
(* Encoding.  Optional[str] fields hold a string, None being the string    *)
(* "None".  Optional[float] fields and optional documents are sequences of *)
(* at most one element (<<>> is None).  discount_value is counted in       *)
(* hundredths: 100.00 is 10000 and -0.01 is -1.                            *)
(***************************************************************************)
EXTENDS Integers, Sequences, FiniteSets, TLC

VARIABLES category_discounts, discount_stores, call,
          item_books, category_discount_detail_documents, upstream_requests

\* the item book collection of the master-data service
book_vars == <<item_books>>

\* the cart service: the cache of one CategoryDiscountDetailWebRepository and
\* the requests it has sent to the master-data service
cart_vars == <<category_discount_detail_documents, upstream_requests>>

vars == <<category_discounts, discount_stores, call, book_vars, cart_vars>>

\* ---------------------------------------------------------------- bounds
\* documents held by the two collections together
MaxDocs == 3

\* list requests use limit 1..MaxLimit and page 1..MaxPage
MaxLimit == 2
MaxPage == 3
\* documents in a collection that is paged through
MaxPageDocs == 4
\* categories, tabs and buttons of one item book
MaxNodes == 4
\* requests one cart repository sends to the master-data service
MaxRequests == 3

\* ---------------------------------------------------------------- domains
\* request slots; requests in different slots interleave at their awaits
Procs == {"r1", "r2"}
Tenants == {"T1", "T2"}
CategoryCodes == {"c1", "c2"}
DiscountCodes == {"d1", "d2"}
StoreCodes == {"s1"}
Descriptions == {"x", "y"}
DiscountValues == {5000, 10001}

None == "None"
NoDoc == <<>>
NoValue == <<>>
\* category_discount_detail_documents = None: no cache list yet
NoCache == <<>>

\* ---------------------------------------------------------------- documents
\* CategoryDiscountMasterDocument(): every field defaults to None
CategoryDiscountMasterDocument ==
  [tenant_id |-> None, category_code |-> None, store_code |-> None,
   discount_code |-> None, description |-> None, description_short |-> None,
   shard_key |-> None]

\* DiscountStoreMasterDocument(): every field defaults to None
DiscountStoreMasterDocument ==
  [tenant_id |-> None, store_code |-> None, discount_code |-> None,
   discount_value |-> NoValue, description |-> None, shard_key |-> None]

\* CategoryDiscountDetailDocument(): the master fields plus discount_value
CategoryDiscountDetailDocument ==
  [tenant_id |-> None, category_code |-> None, store_code |-> None,
   discount_code |-> None, description |-> None, description_short |-> None,
   shard_key |-> None, discount_value |-> NoValue]

\* the field validator of CategoryDiscountDetailDocument
validate_discount_value(v) ==
  \A x \in {v[i] : i \in DOMAIN v} : ~(x < 0 \/ x > 10000)

\* ---------------------------------------------------------------- database
\* a query filter is a function from field names to values
Matches(doc, query_filter) ==
  \A k \in DOMAIN query_filter : doc[k] = query_filter[k]

MatchingIndexes(coll, query_filter) ==
  {i \in DOMAIN coll : Matches(coll[i], query_filter)}

FirstMatch(coll, query_filter) ==
  CHOOSE i \in MatchingIndexes(coll, query_filter) :
    \A j \in MatchingIndexes(coll, query_filter) : i <= j

\* find_one: the first matching document, or None
get_one_async(coll, query_filter) ==
  IF MatchingIndexes(coll, query_filter) = {} THEN NoDoc
  ELSE <<coll[FirstMatch(coll, query_filter)]>>

\* insert_one
create_async(coll, document) == Append(coll, document)

\* update_one with $set: merges update_data into the first matching document
MergeFields(doc, update_data) ==
  [k \in DOMAIN doc |-> IF k \in DOMAIN update_data THEN update_data[k] ELSE doc[k]]

update_one_async(coll, query_filter, update_data) ==
  IF MatchingIndexes(coll, query_filter) = {} THEN coll
  ELSE [coll EXCEPT ![FirstMatch(coll, query_filter)] =
          MergeFields(coll[FirstMatch(coll, query_filter)], update_data)]

RemoveAt(coll, i) ==
  [j \in 1..(Len(coll) - 1) |-> IF j < i THEN coll[j] ELSE coll[j + 1]]

\* delete_one: removes the first matching document
delete_async(coll, query_filter) ==
  IF MatchingIndexes(coll, query_filter) = {} THEN coll
  ELSE RemoveAt(coll, FirstMatch(coll, query_filter))

\* replace_one: the first matching document becomes new_document, whole
replace_one_async(coll, query_filter, new_document) ==
  IF MatchingIndexes(coll, query_filter) = {} THEN coll
  ELSE [coll EXCEPT ![FirstMatch(coll, query_filter)] = new_document]

\* ---------------------------------------------------------------- sorting and paging
\* strings in ascending order of comparison; None (null) sorts before all
SortedStrings ==
  <<"T1", "T2", "c1", "c2", "c3", "c4", "d1", "d2", "d3", "d4", "s1", "s2", "x", "y">>

Rank(v) ==
  IF v = None THEN 0 ELSE CHOOSE i \in DOMAIN SortedStrings : SortedStrings[i] = v

\* a sorts strictly before b under sort, a list of (field, direction) pairs
RECURSIVE Before(_, _, _)
Before(a, b, sort) ==
  IF sort = <<>> THEN FALSE
  ELSE LET field == sort[1][1]
           direction == sort[1][2]
       IN  IF Rank(a[field]) = Rank(b[field]) THEN Before(a, b, Tail(sort))
           ELSE IF direction = 1 THEN Rank(a[field]) < Rank(b[field])
                ELSE Rank(a[field]) > Rank(b[field])

\* the documents of coll that match, in collection order
Matching(coll, query_filter) ==
  LET Test(doc) == Matches(doc, query_filter) IN SelectSeq(coll, Test)

\* the orders in which the database may return docs for sort: any order
\* that respects sort; documents that tie on every sort field come in any order
SortedOrders(docs, sort) ==
  {perm \in Permutations(DOMAIN docs) :
     \A i, j \in DOMAIN docs : i < j => ~Before(docs[perm[j]], docs[perm[i]], sort)}

Min(a, b) == IF a < b THEN a ELSE b

\* count_documents(filter), then find(filter).sort(sort).skip((page-1)*limit).limit(limit);
\* perm is the order the database returns the matching documents in
get_paginated_list_async(coll, query_filter, limit, page, sort, perm) ==
  LET docs == Matching(coll, query_filter)
      sorted == [i \in DOMAIN docs |-> docs[perm[i]]]
      skip == (page - 1) * limit
  IN  [data |-> SubSeq(sorted, skip + 1, Min(skip + limit, Len(sorted))),
       metadata |-> [total_count |-> Len(docs), page |-> page, limit |-> limit]]

\* ---------------------------------------------------------------- repositories
\* variant: the filter is built from the wrong variable
category_make_query_filter_wrong_variable(tenant_id, category_code) ==
  [tenant_id |-> tenant_id, category_code |-> tenant_id]

\* CategoryDiscountMasterRepository.__make_query_filter
category_make_query_filter(tenant_id, category_code) ==
  [tenant_id |-> tenant_id, category_code |-> category_code]

\* variant: the filter leaves the tenant out
discount_make_query_filter_unscoped(tenant_id, discount_code) ==
  [discount_code |-> discount_code]

\* DiscountStoreMasterRepository.__make_query_filter
discount_make_query_filter(tenant_id, discount_code) ==
  [tenant_id |-> tenant_id, discount_code |-> discount_code]

\* __get_shard_key: "-".join([document.tenant_id])
get_shard_key(document) == document.tenant_id

\* variant: a tenant_id the document carries already is kept
StampTenant_keep(tenant_id, document) ==
  IF document.tenant_id # None
  THEN [document EXCEPT !.shard_key = get_shard_key(document)]
  ELSE [[document EXCEPT !.tenant_id = tenant_id] EXCEPT
          !.shard_key = get_shard_key([document EXCEPT !.tenant_id = tenant_id])]

\* the document as create_*_async of a repository bound to tenant_id stores it
StampTenant(tenant_id, document) ==
  [[document EXCEPT !.tenant_id = tenant_id] EXCEPT
     !.shard_key = get_shard_key([document EXCEPT !.tenant_id = tenant_id])]

repo_create_category_discount_async(coll, tenant_id, document) ==
  create_async(coll, StampTenant(tenant_id, document))

repo_get_category_discount_by_code_async(coll, tenant_id, category_code) ==
  get_one_async(coll, category_make_query_filter(tenant_id, category_code))

repo_update_category_discount_async(coll, tenant_id, category_code, update_data) ==
  update_one_async(coll, category_make_query_filter(tenant_id, category_code), update_data)

repo_delete_category_discount_async(coll, tenant_id, category_code) ==
  delete_async(coll, category_make_query_filter(tenant_id, category_code))

repo_create_discount_store_async(coll, tenant_id, document) ==
  create_async(coll, StampTenant(tenant_id, document))

repo_get_discount_store_by_code_async(coll, tenant_id, discount_code) ==
  get_one_async(coll, discount_make_query_filter(tenant_id, discount_code))

repo_update_discount_store_async(coll, tenant_id, discount_code, update_data) ==
  update_one_async(coll, discount_make_query_filter(tenant_id, discount_code), update_data)

repo_delete_discount_store_async(coll, tenant_id, discount_code) ==
  delete_async(coll, discount_make_query_filter(tenant_id, discount_code))

\* variant: query_filter.setdefault("tenant_id", self.tenant_id)
WithTenant_setdefault(query_filter, tenant_id) ==
  [k \in DOMAIN query_filter \cup {"tenant_id"} |->
     IF k \in DOMAIN query_filter THEN query_filter[k] ELSE tenant_id]

\* query_filter["tenant_id"] = self.tenant_id
WithTenant(query_filter, tenant_id) ==
  [k \in DOMAIN query_filter \cup {"tenant_id"} |->
     IF k = "tenant_id" THEN tenant_id ELSE query_filter[k]]

\* variant: limit and page are passed in the wrong order
repo_get_category_discount_by_filter_paginated_async_swapped(coll, tenant_id, query_filter, limit, page, sort, perm) ==
  get_paginated_list_async(coll, WithTenant(query_filter, tenant_id), page, limit, sort, perm)

repo_get_category_discount_by_filter_paginated_async(coll, tenant_id, query_filter, limit, page, sort, perm) ==
  get_paginated_list_async(coll, WithTenant(query_filter, tenant_id), limit, page, sort, perm)

\* variant: limit and page are passed in the wrong order
repo_get_discount_store_by_filter_paginated_async_swapped(coll, tenant_id, query_filter, limit, page, sort, perm) ==
  get_paginated_list_async(coll, WithTenant(query_filter, tenant_id), page, limit, sort, perm)

repo_get_discount_store_by_filter_paginated_async(coll, tenant_id, query_filter, limit, page, sort, perm) ==
  get_paginated_list_async(coll, WithTenant(query_filter, tenant_id), limit, page, sort, perm)

\* ---------------------------------------------------------------- requests
Idle == [pc |-> "idle"]

\* a finished call: what it returned (status "ok") or raised
Done(c, status, value, log) ==
  [pc |-> "done", op |-> c.op, tenant |-> c.tenant, code |-> c.code,
   status |-> status, value |-> value, log |-> log]

\* A request slot that serves HTTP requests starts at "free": its handler
\* verifies the tenant, resolves the service ("resolved") and then calls the
\* service.  A slot at "idle" calls the service directly.
Free == [pc |-> "free"]

\* the request in slot p is where the handler calls its service, or p is idle
Enters(p, handler) ==
  \/ call[p].pc = "idle"
  \/ call[p].pc = "resolved" /\ call[p].handler = handler /\ call[p].code = None

\* the same for the second call of a handler that has looked its document up
EntersExisting(p, handler) ==
  \/ call[p].pc = "idle"
  \/ call[p].pc = "resolved" /\ call[p].handler = handler /\ call[p].code # None

\* the tenant of the service: the path tenant_id of the handler's request
EntryTenants(p) == IF call[p].pc = "idle" THEN Tenants ELSE {call[p].tenant}

\* the code argument: the one the handler has looked up already
EntryCodes(p, codes) == IF call[p].pc = "idle" THEN codes ELSE {call[p].code}

\* what the request has done before it calls the service
EntryLog(p) == IF call[p].pc = "idle" THEN <<>> ELSE call[p].log

\* creates that passed their existence check and have not inserted yet
PendingInserts == {q \in Procs : call[q].pc = "insert"}

\* room for one more document
HasRoom ==
  Len(category_discounts) + Len(discount_stores) + Cardinality(PendingInserts) < MaxDocs

\* the update_data dictionaries a caller may pass
CategoryUpdateData ==
  {[discount_code |-> d] : d \in DiscountCodes}
  \cup {[category_code |-> c] : c \in CategoryCodes}

DiscountUpdateData ==
  {[discount_value |-> <<v>>] : v \in DiscountValues}
  \cup {[discount_code |-> d] : d \in DiscountCodes}

\* ---------------------------------------------------------------- CategoryDiscountMasterService
\* create_category_discount_async, up to the insert: the existence check
create_category_discount_check(p, descriptions) ==
  /\ Enters(p, "create_category_discount")
  /\ HasRoom
  /\ \E t \in EntryTenants(p), category_code \in CategoryCodes, store_code \in StoreCodes,
        description \in descriptions, discount_code \in DiscountCodes :
       LET c == [op |-> "create_category_discount", tenant |-> t, code |-> category_code]
           category == repo_get_category_discount_by_code_async(category_discounts, t, category_code)
           log == Append(EntryLog(p), "get_category_discount_by_code_async")
       IN  IF category # NoDoc
           THEN call' = [call EXCEPT ![p] = Done(c, "DocumentAlreadyExistsException", NoDoc, log)]
           ELSE call' = [call EXCEPT ![p] =
                  [pc |-> "insert", op |-> c.op, tenant |-> t, code |-> category_code,
                   doc |-> [CategoryDiscountMasterDocument EXCEPT
                              !.category_code = category_code, !.store_code = store_code,
                              !.description = description, !.discount_code = discount_code],
                   log |-> log]]
  /\ UNCHANGED <<category_discounts, discount_stores, book_vars, cart_vars>>

\* create_category_discount_async: the repository create
create_category_discount_insert(p) ==
  /\ call[p].pc = "insert"
  /\ call[p].op = "create_category_discount"
  /\ category_discounts' =
       repo_create_category_discount_async(category_discounts, call[p].tenant, call[p].doc)
  /\ call' = [call EXCEPT ![p] =
       Done(call[p], "ok", <<StampTenant(call[p].tenant, call[p].doc)>>,
            Append(call[p].log, "create_category_discount_async"))]
  /\ UNCHANGED <<discount_stores, book_vars, cart_vars>>

\* get_category_discount_by_code_async of the service
get_category_discount_by_code_async(p) ==
  /\ Enters(p, "get_category_discount")
  /\ \E t \in EntryTenants(p), category_code \in CategoryCodes :
       LET c == [op |-> "get_category_discount_by_code", tenant |-> t, code |-> category_code]
           category == repo_get_category_discount_by_code_async(category_discounts, t, category_code)
           log == Append(EntryLog(p), "get_category_discount_by_code_async")
       IN  IF category = NoDoc
           THEN call' = [call EXCEPT ![p] = Done(c, "DocumentNotFoundException", NoDoc, log)]
           ELSE call' = [call EXCEPT ![p] = Done(c, "ok", category, log)]
  /\ UNCHANGED <<category_discounts, discount_stores, book_vars, cart_vars>>

\* update_category_discount_async: the existence check
update_category_discount_check(p) ==
  /\ call[p].pc = "idle"
  /\ \E t \in Tenants, category_code \in CategoryCodes, update_data \in CategoryUpdateData :
       LET c == [op |-> "update_category_discount", tenant |-> t, code |-> category_code]
           category == repo_get_category_discount_by_code_async(category_discounts, t, category_code)
           log == <<"get_category_discount_by_code_async">>
       IN  IF category = NoDoc
           THEN call' = [call EXCEPT ![p] = Done(c, "DocumentNotFoundException", NoDoc, log)]
           ELSE call' = [call EXCEPT ![p] =
                  [pc |-> "update", op |-> c.op, tenant |-> t, code |-> category_code,
                   update_data |-> update_data, log |-> log]]
  /\ UNCHANGED <<category_discounts, discount_stores, book_vars, cart_vars>>

\* update_category_discount_async: update_one_async of the repository update
update_category_discount_write(p) ==
  /\ call[p].pc = "update"
  /\ call[p].op = "update_category_discount"
  /\ LET c == call[p]
         log == Append(c.log, "update_category_discount_async")
         success == MatchingIndexes(category_discounts,
                                    category_make_query_filter(c.tenant, c.code)) # {}
     IN  /\ category_discounts' =
              repo_update_category_discount_async(category_discounts, c.tenant, c.code, c.update_data)
         /\ IF success
            THEN call' = [call EXCEPT ![p] =
                   [pc |-> "refetch", op |-> c.op, tenant |-> c.tenant, code |-> c.code, log |-> log]]
            ELSE call' = [call EXCEPT ![p] = Done(c, "Exception", NoDoc, log)]
  /\ UNCHANGED <<discount_stores, book_vars, cart_vars>>

\* update_category_discount_async: the repository reads the document back
update_category_discount_refetch(p) ==
  /\ call[p].pc = "refetch"
  /\ call[p].op = "update_category_discount"
  /\ call' = [call EXCEPT ![p] =
       Done(call[p], "ok",
            repo_get_category_discount_by_code_async(category_discounts, call[p].tenant, call[p].code),
            Append(call[p].log, "get_category_discount_by_code_async"))]
  /\ UNCHANGED <<category_discounts, discount_stores, book_vars, cart_vars>>

\* delete_category_discount_async: the existence check
delete_category_discount_check(p) ==
  /\ EntersExisting(p, "delete_category_discount")
  /\ \E t \in EntryTenants(p), category_code \in EntryCodes(p, CategoryCodes) :
       LET c == [op |-> "delete_category_discount", tenant |-> t, code |-> category_code]
           category == repo_get_category_discount_by_code_async(category_discounts, t, category_code)
           log == Append(EntryLog(p), "get_category_discount_by_code_async")
       IN  IF category = NoDoc
           THEN call' = [call EXCEPT ![p] = Done(c, "DocumentNotFoundException", NoDoc, log)]
           ELSE call' = [call EXCEPT ![p] =
                  [pc |-> "delete", op |-> c.op, tenant |-> t, code |-> category_code, log |-> log]]
  /\ UNCHANGED <<category_discounts, discount_stores, book_vars, cart_vars>>

\* delete_category_discount_async: the repository delete
delete_category_discount_write(p) ==
  /\ call[p].pc = "delete"
  /\ call[p].op = "delete_category_discount"
  /\ category_discounts' =
       repo_delete_category_discount_async(category_discounts, call[p].tenant, call[p].code)
  /\ call' = [call EXCEPT ![p] =
       Done(call[p], "ok", NoDoc, Append(call[p].log, "delete_category_discount_async"))]
  /\ UNCHANGED <<discount_stores, book_vars, cart_vars>>

\* variant: a missing category discount raises
detail_without_master_raising(category_discount_detail_doc) ==
  [status |-> "DocumentNotFoundException", value |-> NoDoc]

\* what get_category_discount_detail_by_code_async does when there is no
\* category discount: it logs and returns the detail document as constructed
detail_without_master(category_discount_detail_doc) ==
  [status |-> "ok", value |-> <<category_discount_detail_doc>>]

\* the fields the detail document takes from the category discount
detail_from_master(category_discount_detail_doc, category_discount_master_doc) ==
  [category_discount_detail_doc EXCEPT
     !.tenant_id = category_discount_master_doc.tenant_id,
     !.category_code = category_discount_master_doc.category_code,
     !.store_code = category_discount_master_doc.store_code,
     !.discount_code = category_discount_master_doc.discount_code,
     !.description = category_discount_master_doc.description]

\* variant: a missing store discount is a soft miss too
detail_without_discount_soft(category_discount_detail_doc) ==
  [status |-> "ok", value |-> <<category_discount_detail_doc>>]

\* what it does when the store discount of the category discount is missing
detail_without_discount(category_discount_detail_doc) ==
  [status |-> "DocumentNotFoundException", value |-> NoDoc]

\* what it does when the store discount is found
detail_with_discount(category_discount_detail_doc, discount_master) ==
  [status |-> "ok",
   value |-> <<[category_discount_detail_doc EXCEPT
                  !.discount_value = discount_master.discount_value]>>]

\* SchemasTransformerV1.transform_category_discount_detail: the response
\* schema object built from the fields of the detail document
transform_category_discount_detail(category_discount_detail) ==
  [tenant_id |-> category_discount_detail.tenant_id,
   category_code |-> category_discount_detail.category_code,
   store_code |-> category_discount_detail.store_code,
   discount_code |-> category_discount_detail.discount_code,
   description |-> category_discount_detail.description,
   description_short |-> category_discount_detail.description_short,
   discount_value |-> category_discount_detail.discount_value]

\* the uniform response envelope; data is None (<<>>) or a payload (<<d>>)
ApiResponse(success, code, message, data, operation) ==
  [success |-> success, code |-> code, message |-> message, data |-> data,
   operation |-> operation]

\* the handler get_category_discount_detail after its service call: what the
\* service raised is raised again (no envelope, <<>>); what it returned is
\* transformed when it is truthy, and an object, unlike None, is truthy
get_category_discount_detail(status, category_discount_detail) ==
  IF status # "ok" THEN <<>>
  ELSE LET return_category_discount_detail ==
             IF category_discount_detail # NoDoc
             THEN <<transform_category_discount_detail(category_discount_detail[1])>>
             ELSE NoDoc
       IN  IF return_category_discount_detail # NoDoc
           THEN <<ApiResponse(TRUE, 200, "found successfully",
                              return_category_discount_detail, "get_category_discount_detail")>>
           ELSE <<ApiResponse(TRUE, 200, "not found", NoDoc, "get_category_discount_detail")>>

\* a finished detail call, with the response its handler makes of it
DetailDone(c, status, value, log) ==
  [pc |-> "done", op |-> c.op, tenant |-> c.tenant, code |-> c.code,
   status |-> status, value |-> value, log |-> log,
   response |-> get_category_discount_detail(status, value)]

\* get_category_discount_detail_by_code_async: the category discount lookup
get_category_discount_detail_master(p) ==
  /\ Enters(p, "get_category_discount_detail")
  /\ \E t \in EntryTenants(p), category_code \in CategoryCodes :
       LET c == [op |-> "get_category_discount_detail", tenant |-> t, code |-> category_code]
           category_discount_detail_doc == CategoryDiscountDetailDocument
           category_discount_master_doc ==
             repo_get_category_discount_by_code_async(category_discounts, t, category_code)
           log == Append(EntryLog(p), "get_category_discount_by_code_async")
       IN  IF category_discount_master_doc = NoDoc
           THEN call' = [call EXCEPT ![p] =
                  DetailDone(c, detail_without_master(category_discount_detail_doc).status,
                       detail_without_master(category_discount_detail_doc).value, log)]
           ELSE call' = [call EXCEPT ![p] =
                  [pc |-> "lookup", op |-> c.op, tenant |-> t, code |-> category_code,
                   master_discount_code |-> category_discount_master_doc[1].discount_code,
                   detail |-> detail_from_master(category_discount_detail_doc,
                                                 category_discount_master_doc[1]),
                   log |-> log]]
  /\ UNCHANGED <<category_discounts, discount_stores, book_vars, cart_vars>>

\* get_category_discount_detail_by_code_async: the store discount lookup
get_category_discount_detail_discount(p) ==
  /\ call[p].pc = "lookup"
  /\ call[p].op = "get_category_discount_detail"
  /\ LET c == call[p]
         discount_master ==
           repo_get_discount_store_by_code_async(discount_stores, c.tenant, c.master_discount_code)
         log == Append(c.log, "get_discount_store_by_code_async")
     IN  IF discount_master = NoDoc
         THEN call' = [call EXCEPT ![p] =
                DetailDone(c, detail_without_discount(c.detail).status,
                     detail_without_discount(c.detail).value, log)]
         ELSE call' = [call EXCEPT ![p] =
                DetailDone(c, detail_with_discount(c.detail, discount_master[1]).status,
                     detail_with_discount(c.detail, discount_master[1]).value, log)]
  /\ UNCHANGED <<category_discounts, discount_stores, book_vars, cart_vars>>

\* ---------------------------------------------------------------- DiscountStoreMasterService
\* create_discount_store_async, up to the insert: the existence check
create_discount_store_check(p) ==
  /\ Enters(p, "create_discount_store")
  /\ HasRoom
  /\ \E t \in EntryTenants(p), discount_code \in DiscountCodes, store_code \in StoreCodes,
        discount_value \in DiscountValues, description \in {"x"} :
       LET c == [op |-> "create_discount_store", tenant |-> t, code |-> discount_code]
           discount == repo_get_discount_store_by_code_async(discount_stores, t, discount_code)
           log == Append(EntryLog(p), "get_discount_store_by_code_async")
       IN  IF discount # NoDoc
           THEN call' = [call EXCEPT ![p] = Done(c, "DocumentAlreadyExistsException", NoDoc, log)]
           ELSE call' = [call EXCEPT ![p] =
                  [pc |-> "insert", op |-> c.op, tenant |-> t, code |-> discount_code,
                   doc |-> [DiscountStoreMasterDocument EXCEPT
                              !.discount_code = discount_code, !.store_code = store_code,
                              !.discount_value = <<discount_value>>, !.description = description],
                   log |-> log]]
  /\ UNCHANGED <<category_discounts, discount_stores, book_vars, cart_vars>>

\* create_discount_store_async: the repository create
create_discount_store_insert(p) ==
  /\ call[p].pc = "insert"
  /\ call[p].op = "create_discount_store"
  /\ discount_stores' =
       repo_create_discount_store_async(discount_stores, call[p].tenant, call[p].doc)
  /\ call' = [call EXCEPT ![p] =
       Done(call[p], "ok", <<StampTenant(call[p].tenant, call[p].doc)>>,
            Append(call[p].log, "create_discount_store_async"))]
  /\ UNCHANGED <<category_discounts, book_vars, cart_vars>>

\* get_discount_store_by_code_async of the service
get_discount_store_by_code_async(p) ==
  /\ Enters(p, "get_discount")
  /\ \E t \in EntryTenants(p), discount_code \in DiscountCodes :
       LET c == [op |-> "get_discount_store_by_code", tenant |-> t, code |-> discount_code]
           discount == repo_get_discount_store_by_code_async(discount_stores, t, discount_code)
           log == Append(EntryLog(p), "get_discount_store_by_code_async")
       IN  IF discount = NoDoc
           THEN call' = [call EXCEPT ![p] = Done(c, "DocumentNotFoundException", NoDoc, log)]
           ELSE call' = [call EXCEPT ![p] = Done(c, "ok", discount, log)]
  /\ UNCHANGED <<category_discounts, discount_stores, book_vars, cart_vars>>

\* update_discount_store_async: the existence check
update_discount_store_check(p) ==
  /\ call[p].pc = "idle"
  /\ \E t \in Tenants, discount_code \in DiscountCodes, update_data \in DiscountUpdateData :
       LET c == [op |-> "update_discount_store", tenant |-> t, code |-> discount_code]
           discount == repo_get_discount_store_by_code_async(discount_stores, t, discount_code)
           log == <<"get_discount_store_by_code_async">>
       IN  IF discount = NoDoc
           THEN call' = [call EXCEPT ![p] = Done(c, "DocumentNotFoundException", NoDoc, log)]
           ELSE call' = [call EXCEPT ![p] =
                  [pc |-> "update", op |-> c.op, tenant |-> t, code |-> discount_code,
                   update_data |-> update_data, log |-> log]]
  /\ UNCHANGED <<category_discounts, discount_stores, book_vars, cart_vars>>

\* update_discount_store_async: update_one_async of the repository update
update_discount_store_write(p) ==
  /\ call[p].pc = "update"
  /\ call[p].op = "update_discount_store"
  /\ LET c == call[p]
         log == Append(c.log, "update_discount_store_async")
         success == MatchingIndexes(discount_stores,
                                    discount_make_query_filter(c.tenant, c.code)) # {}
     IN  /\ discount_stores' =
              repo_update_discount_store_async(discount_stores, c.tenant, c.code, c.update_data)
         /\ IF success
            THEN call' = [call EXCEPT ![p] =
                   [pc |-> "refetch", op |-> c.op, tenant |-> c.tenant, code |-> c.code, log |-> log]]
            ELSE call' = [call EXCEPT ![p] = Done(c, "Exception", NoDoc, log)]
  /\ UNCHANGED <<category_discounts, book_vars, cart_vars>>

\* update_discount_store_async: the repository reads the document back
update_discount_store_refetch(p) ==
  /\ call[p].pc = "refetch"
  /\ call[p].op = "update_discount_store"
  /\ call' = [call EXCEPT ![p] =
       Done(call[p], "ok",
            repo_get_discount_store_by_code_async(discount_stores, call[p].tenant, call[p].code),
            Append(call[p].log, "get_discount_store_by_code_async"))]
  /\ UNCHANGED <<category_discounts, discount_stores, book_vars, cart_vars>>

\* delete_discount_store_async: the existence check
delete_discount_store_check(p) ==
  /\ EntersExisting(p, "delete_discount")
  /\ \E t \in EntryTenants(p), discount_code \in EntryCodes(p, DiscountCodes) :
       LET c == [op |-> "delete_discount_store", tenant |-> t, code |-> discount_code]
           discount == repo_get_discount_store_by_code_async(discount_stores, t, discount_code)
           log == Append(EntryLog(p), "get_discount_store_by_code_async")
       IN  IF discount = NoDoc
           THEN call' = [call EXCEPT ![p] = Done(c, "DocumentNotFoundException", NoDoc, log)]
           ELSE call' = [call EXCEPT ![p] =
                  [pc |-> "delete", op |-> c.op, tenant |-> t, code |-> discount_code, log |-> log]]
  /\ UNCHANGED <<category_discounts, discount_stores, book_vars, cart_vars>>

\* delete_discount_store_async: the repository delete
delete_discount_store_write(p) ==
  /\ call[p].pc = "delete"
  /\ call[p].op = "delete_discount_store"
  /\ discount_stores' =
       repo_delete_discount_store_async(discount_stores, call[p].tenant, call[p].code)
  /\ call' = [call EXCEPT ![p] =
       Done(call[p], "ok", NoDoc, Append(call[p].log, "delete_discount_store_async"))]
  /\ UNCHANGED <<category_discounts, book_vars, cart_vars>>

\* ---------------------------------------------------------------- calls of the repositories
\* the documents a caller of a repository may pass: a new one, or one that
\* carries the tenant_id and shard_key a repository has given it
SuppliedCategoryDocuments ==
  LET New(c) == [CategoryDiscountMasterDocument EXCEPT
                   !.category_code = c, !.store_code = "s1", !.discount_code = "d1"]
  IN  {New(c) : c \in CategoryCodes}
      \cup {StampTenant(t, New(c)) : t \in Tenants, c \in CategoryCodes}

SuppliedDiscountDocuments ==
  LET New(d) == [DiscountStoreMasterDocument EXCEPT
                   !.discount_code = d, !.store_code = "s1", !.discount_value = <<5000>>]
  IN  {New(d) : d \in {"d1"}} \cup {StampTenant(t, New(d)) : t \in Tenants, d \in {"d1"}}

\* a finished call of a repository with the document it was given
RepositoryDone(op, t, code, document, status, value, log) ==
  [pc |-> "done", op |-> op, tenant |-> t, code |-> code, document |-> document,
   status |-> status, value |-> value, log |-> log]

\* CategoryDiscountMasterRepository.create_category_discount_async; success
\* is what create_async reports
repository_create_category_discount_async(p) ==
  /\ call[p].pc = "idle"
  /\ HasRoom
  /\ \E t \in Tenants, document \in SuppliedCategoryDocuments, success \in BOOLEAN :
       /\ category_discounts' =
            IF success THEN repo_create_category_discount_async(category_discounts, t, document)
            ELSE category_discounts
       /\ call' = [call EXCEPT ![p] =
            IF success
            THEN RepositoryDone("repository_create_category_discount", t, document.category_code,
                                document, "ok", <<StampTenant(t, document)>>, <<"create_async">>)
            ELSE RepositoryDone("repository_create_category_discount", t, document.category_code,
                                document, "Exception", NoDoc, <<"create_async">>)]
  /\ UNCHANGED <<discount_stores, book_vars, cart_vars>>

\* DiscountStoreMasterRepository.create_discount_store_async
repository_create_discount_store_async(p) ==
  /\ call[p].pc = "idle"
  /\ HasRoom
  /\ \E t \in Tenants, document \in SuppliedDiscountDocuments, success \in BOOLEAN :
       /\ discount_stores' =
            IF success THEN repo_create_discount_store_async(discount_stores, t, document)
            ELSE discount_stores
       /\ call' = [call EXCEPT ![p] =
            IF success
            THEN RepositoryDone("repository_create_discount_store", t, document.discount_code,
                                document, "ok", <<StampTenant(t, document)>>, <<"create_async">>)
            ELSE RepositoryDone("repository_create_discount_store", t, document.discount_code,
                                document, "Exception", NoDoc, <<"create_async">>)]
  /\ UNCHANGED <<category_discounts, book_vars, cart_vars>>

\* CategoryDiscountMasterRepository.replace_category_discount_async
repository_replace_category_discount_async(p) ==
  /\ call[p].pc = "idle"
  /\ \E t \in Tenants, category_code \in CategoryCodes,
        new_document \in SuppliedCategoryDocuments :
       LET query_filter == category_make_query_filter(t, category_code)
           success == MatchingIndexes(category_discounts, query_filter) # {}
       IN  /\ category_discounts' =
                replace_one_async(category_discounts, query_filter, new_document)
           /\ call' = [call EXCEPT ![p] =
                IF success
                THEN RepositoryDone("repository_replace_category_discount", t, category_code,
                                    new_document, "ok", <<new_document>>, <<"replace_one_async">>)
                ELSE RepositoryDone("repository_replace_category_discount", t, category_code,
                                    new_document, "Exception", NoDoc, <<"replace_one_async">>)]
  /\ UNCHANGED <<discount_stores, book_vars, cart_vars>>

\* DiscountStoreMasterRepository.replace_discount_store_async
repository_replace_discount_store_async(p) ==
  /\ call[p].pc = "idle"
  /\ \E t \in Tenants, discount_code \in DiscountCodes,
        new_document \in SuppliedDiscountDocuments :
       LET query_filter == discount_make_query_filter(t, discount_code)
           success == MatchingIndexes(discount_stores, query_filter) # {}
       IN  /\ discount_stores' =
                replace_one_async(discount_stores, query_filter, new_document)
           /\ call' = [call EXCEPT ![p] =
                IF success
                THEN RepositoryDone("repository_replace_discount_store", t, discount_code,
                                    new_document, "ok", <<new_document>>, <<"replace_one_async">>)
                ELSE RepositoryDone("repository_replace_discount_store", t, discount_code,
                                    new_document, "Exception", NoDoc, <<"replace_one_async">>)]
  /\ UNCHANGED <<category_discounts, book_vars, cart_vars>>

\* ---------------------------------------------------------------- item books
\* An item book is one document: a title and an ordered list of categories,
\* each with an ordered list of tabs, each with an ordered list of buttons.
\* the ids requests name, and the ids the service gives to new item books
ItemBookIds == {"b1", "b2"}
NewItemBookIds == {"b1"}
CategoryNumbers == {1, 2}
TabNumbers == {1, 2}
Positions == {<<0, 0>>, <<2, 3>>}
Titles == {"x", "y"}
ItemCodes == {"i1"}

ItemBookButton(pos_x, pos_y, item_code) ==
  [pos_x |-> pos_x, pos_y |-> pos_y, item_code |-> item_code]

ItemBookTab(tab_number, title, buttons) ==
  [tab_number |-> tab_number, title |-> title, buttons |-> buttons]

ItemBookCategory(category_number, title, tabs) ==
  [category_number |-> category_number, title |-> title, tabs |-> tabs]

ItemBookMasterDocument(tenant_id, item_book_id, title, categories) ==
  [tenant_id |-> tenant_id, item_book_id |-> item_book_id, title |-> title,
   categories |-> categories]

\* a path parameter as the handler hands it to the service: declared int, the
\* framework converts the path segment to an integer; declared str, the
\* service receives the text of the segment
PathInt(n) == [type |-> "int", value |-> n]
PathStr(n) == [type |-> "str", value |-> n]

\* number == key of Python, number being an int: an int never equals a str
KeyEquals(number, key) == key.type = "int" /\ key.value = number

LeastOf(S) == IF S = {} THEN 0 ELSE CHOOSE i \in S : \A j \in S : i <= j

\* locate by key: the position of the first element with the key, 0 if none
LocateCategory(categories, category_number) ==
  LeastOf({i \in DOMAIN categories : KeyEquals(categories[i].category_number, category_number)})

LocateTab(tabs, tab_number) ==
  LeastOf({i \in DOMAIN tabs : KeyEquals(tabs[i].tab_number, tab_number)})

LocateButton(buttons, pos_x, pos_y) ==
  LeastOf({i \in DOMAIN buttons :
             KeyEquals(buttons[i].pos_x, pos_x) /\ KeyEquals(buttons[i].pos_y, pos_y)})

RECURSIVE SumOver(_, _)
SumOver(seq, field) ==
  IF seq = <<>> THEN 0 ELSE Len(seq[1][field]) + SumOver(Tail(seq), field)

RECURSIVE ButtonsOf(_)
ButtonsOf(categories) ==
  IF categories = <<>> THEN 0
  ELSE SumOver(categories[1].tabs, "buttons") + ButtonsOf(Tail(categories))

\* categories, tabs and buttons of a list of categories
Nodes(categories) ==
  Len(categories) + SumOver(categories, "tabs") + ButtonsOf(categories)

\* the outcome of the in-memory part of an edit: the document to persist,
\* or the exception raised and the level that was missing
EditOk(item_book) == [status |-> "ok", missing |-> None, doc |-> <<item_book>>]
EditNotFound(level) == [status |-> "DocumentNotFoundException", missing |-> level, doc |-> NoDoc]
EditAlreadyExists == [status |-> "DocumentAlreadyExistsException", missing |-> None, doc |-> NoDoc]

\* the tab list of a category, edited by Edit(tabs), which yields an outcome
\* whose doc is the new tab list
InCategory(found, category_number, Edit(_)) ==
  IF found = NoDoc THEN EditNotFound("item_book")
  ELSE LET item_book == found[1]
           ci == LocateCategory(item_book.categories, category_number)
       IN  IF ci = 0 THEN EditNotFound("category")
           ELSE LET r == Edit(item_book.categories[ci].tabs)
                IN  IF r.status # "ok" THEN r
                    ELSE EditOk([item_book EXCEPT !.categories[ci].tabs = r.doc[1]])

\* the button list of a tab of a category, edited by Edit(buttons)
InTab(found, category_number, tab_number, Edit(_)) ==
  LET EditTabs(tabs) ==
        LET ti == LocateTab(tabs, tab_number)
        IN  IF ti = 0 THEN EditNotFound("tab")
            ELSE LET r == Edit(tabs[ti].buttons)
                 IN  IF r.status # "ok" THEN r
                     ELSE EditOk([tabs EXCEPT ![ti].buttons = r.doc[1]])
  IN  InCategory(found, category_number, EditTabs)

\* add_category_to_item_book_async, in memory
add_category(found, category) ==
  IF found = NoDoc THEN EditNotFound("item_book")
  ELSE IF \E i \in DOMAIN found[1].categories :
            found[1].categories[i].category_number = category.category_number
       THEN EditAlreadyExists
       ELSE EditOk([found[1] EXCEPT !.categories = Append(@, category)])

\* update_category_in_item_book_async, in memory
update_category(found, category_number, category) ==
  IF found = NoDoc THEN EditNotFound("item_book")
  ELSE LET ci == LocateCategory(found[1].categories, category_number)
       IN  IF ci = 0 THEN EditNotFound("category")
           ELSE EditOk([found[1] EXCEPT !.categories[ci] = category])

\* delete_category_from_item_book_async, in memory
delete_category(found, category_number) ==
  IF found = NoDoc THEN EditNotFound("item_book")
  ELSE LET ci == LocateCategory(found[1].categories, category_number)
       IN  IF ci = 0 THEN EditNotFound("category")
           ELSE EditOk([found[1] EXCEPT !.categories = RemoveAt(@, ci)])

\* add_tab_to_category_in_item_book_async, in memory
add_tab(found, category_number, tab) ==
  LET Edit(tabs) ==
        IF \E i \in DOMAIN tabs : tabs[i].tab_number = tab.tab_number
        THEN EditAlreadyExists ELSE EditOk(Append(tabs, tab))
  IN  InCategory(found, category_number, Edit)

\* update_tab_in_category_in_item_book_async, in memory
update_tab(found, category_number, tab_number, tab) ==
  LET Edit(tabs) ==
        LET ti == LocateTab(tabs, tab_number)
        IN  IF ti = 0 THEN EditNotFound("tab") ELSE EditOk([tabs EXCEPT ![ti] = tab])
  IN  InCategory(found, category_number, Edit)

\* delete_tab_from_category_in_item_book_async, in memory
delete_tab(found, category_number, tab_number) ==
  LET Edit(tabs) ==
        LET ti == LocateTab(tabs, tab_number)
        IN  IF ti = 0 THEN EditNotFound("tab") ELSE EditOk(RemoveAt(tabs, ti))
  IN  InCategory(found, category_number, Edit)

\* add_button_to_tab_in_category_in_item_book_async, in memory
add_button(found, category_number, tab_number, button) ==
  LET Edit(buttons) ==
        IF \E i \in DOMAIN buttons :
             buttons[i].pos_x = button.pos_x /\ buttons[i].pos_y = button.pos_y
        THEN EditAlreadyExists ELSE EditOk(Append(buttons, button))
  IN  InTab(found, category_number, tab_number, Edit)

\* update_button_in_tab_in_category_in_item_book_async, in memory
update_button(found, category_number, tab_number, pos_x, pos_y, button) ==
  LET Edit(buttons) ==
        LET bi == LocateButton(buttons, pos_x, pos_y)
        IN  IF bi = 0 THEN EditNotFound("button") ELSE EditOk([buttons EXCEPT ![bi] = button])
  IN  InTab(found, category_number, tab_number, Edit)

\* delete_button_from_tab_in_category_in_item_book_async, in memory
delete_button(found, category_number, tab_number, pos_x, pos_y) ==
  LET Edit(buttons) ==
        LET bi == LocateButton(buttons, pos_x, pos_y)
        IN  IF bi = 0 THEN EditNotFound("button") ELSE EditOk(RemoveAt(buttons, bi))
  IN  InTab(found, category_number, tab_number, Edit)

\* ---------------------------------------------------------------- ItemBookMasterRepository
item_book_query_filter(tenant_id, item_book_id) ==
  [tenant_id |-> tenant_id, item_book_id |-> item_book_id]

repo_create_item_book_async(coll, tenant_id, document) ==
  create_async(coll, [document EXCEPT !.tenant_id = tenant_id])

repo_get_item_book_async(coll, tenant_id, item_book_id) ==
  get_one_async(coll, item_book_query_filter(tenant_id, item_book_id))

\* the whole document is written back over the stored one
repo_update_item_book_async(coll, tenant_id, item_book_id, document) ==
  update_one_async(coll, item_book_query_filter(tenant_id, item_book_id), document)

repo_delete_item_book_async(coll, tenant_id, item_book_id) ==
  delete_async(coll, item_book_query_filter(tenant_id, item_book_id))

\* ---------------------------------------------------------------- item book requests
NoKey == [type |-> "none", value |-> 0]

\* the arguments of an item book call; absent ones are NoKey and <<>>
BookCall(op, t, item_book_id, category_number, tab_number, pos_x, pos_y, body) ==
  [op |-> op, tenant |-> t, code |-> item_book_id, category_number |-> category_number,
   tab_number |-> tab_number, pos_x |-> pos_x, pos_y |-> pos_y, body |-> body]

BookRequest(pc, c, status, missing, value, doc, log) ==
  [pc |-> pc, op |-> c.op, tenant |-> c.tenant, code |-> c.code,
   category_number |-> c.category_number, tab_number |-> c.tab_number,
   pos_x |-> c.pos_x, pos_y |-> c.pos_y, body |-> c.body,
   status |-> status, missing |-> missing, value |-> value, doc |-> doc, log |-> log]

\* after the load and the in-memory edit: the call goes on to persist the
\* edited document, or raises what the edit raised
BeginEdit(p, c, outcome) ==
  /\ outcome.status = "ok" => Nodes(outcome.doc[1].categories) <= MaxNodes
  /\ call' = [call EXCEPT ![p] =
       IF outcome.status = "ok"
       THEN BookRequest("persist", c, "ok", None, NoDoc, outcome.doc,
                        Append(EntryLog(p), "get_item_book_async"))
       ELSE BookRequest("done", c, outcome.status, outcome.missing, NoDoc, NoDoc,
                        Append(EntryLog(p), "get_item_book_async"))]
  /\ UNCHANGED <<category_discounts, discount_stores, book_vars, cart_vars>>

\* request bodies
CategoryBodies == {ItemBookCategory(n, title, <<>>) : n \in CategoryNumbers, title \in Titles}

\* the button lists a client may send in a tab body: none, or one it has read
StoredButtonLists ==
  {item_books[b].categories[c].tabs[t].buttons :
     <<b, c, t>> \in {k \in (DOMAIN item_books) \X (1..MaxNodes) \X (1..MaxNodes) :
                        /\ k[2] \in DOMAIN item_books[k[1]].categories
                        /\ k[3] \in DOMAIN item_books[k[1]].categories[k[2]].tabs}}

TabBodies ==
  {ItemBookTab(n, title, buttons) :
     n \in TabNumbers, title \in {"x"}, buttons \in {<<>>} \cup StoredButtonLists}

ButtonBodies ==
  {ItemBookButton(pos[1], pos[2], item_code) : pos \in Positions, item_code \in ItemCodes}

\* the categories a create request may carry
InitialCategories ==
  {<<>>} \cup {<<a>> : a \in CategoryBodies} \cup {<<a, b>> : a, b \in CategoryBodies}

\* ---------------------------------------------------------------- item book handlers and ItemBookMasterService
\* create_item_book: the book is stored with a fresh id and the categories given
create_item_book(p) ==
  /\ Enters(p, "create_item_book")
  /\ \E t \in EntryTenants(p), title \in {"x"}, categories \in InitialCategories,
        item_book_id \in NewItemBookIds :
       LET c == BookCall("create_item_book", t, item_book_id, NoKey, NoKey, NoKey, NoKey, <<>>)
           document == ItemBookMasterDocument(t, item_book_id, title, categories)
       IN  /\ \A i \in DOMAIN item_books : item_books[i].item_book_id # item_book_id
           /\ Nodes(categories) <= MaxNodes
           /\ item_books' = repo_create_item_book_async(item_books, t, document)
           /\ call' = [call EXCEPT ![p] =
                BookRequest("done", c, "ok", None, <<document>>, NoDoc, Append(EntryLog(p), "create_item_book_async"))]
  /\ UNCHANGED <<category_discounts, discount_stores, cart_vars>>

\* get_item_book_by_id without a store_code
get_item_book_by_id(p) ==
  /\ Enters(p, "get_item_book_by_id")
  /\ \E t \in EntryTenants(p), item_book_id \in ItemBookIds :
       LET c == BookCall("get_item_book_by_id", t, item_book_id, NoKey, NoKey, NoKey, NoKey, <<>>)
           found == repo_get_item_book_async(item_books, t, item_book_id)
       IN  call' = [call EXCEPT ![p] =
             IF found = NoDoc
             THEN BookRequest("done", c, "DocumentNotFoundException", "item_book", NoDoc, NoDoc,
                              Append(EntryLog(p), "get_item_book_async"))
             ELSE BookRequest("done", c, "ok", None, found, NoDoc, Append(EntryLog(p), "get_item_book_async"))]
  /\ UNCHANGED <<category_discounts, discount_stores, book_vars, cart_vars>>

\* delete_item_book
delete_item_book(p) ==
  /\ Enters(p, "delete_item_book")
  /\ \E t \in EntryTenants(p), item_book_id \in ItemBookIds :
       LET c == BookCall("delete_item_book", t, item_book_id, NoKey, NoKey, NoKey, NoKey, <<>>)
           found == repo_get_item_book_async(item_books, t, item_book_id)
       IN  /\ item_books' = repo_delete_item_book_async(item_books, t, item_book_id)
           /\ call' = [call EXCEPT ![p] =
                IF found = NoDoc
                THEN BookRequest("done", c, "DocumentNotFoundException", "item_book", NoDoc, NoDoc,
                                 Append(EntryLog(p), "delete_item_book_async"))
                ELSE BookRequest("done", c, "ok", None, NoDoc, NoDoc, Append(EntryLog(p), "delete_item_book_async"))]
  /\ UNCHANGED <<category_discounts, discount_stores, cart_vars>>

\* add_category_to_item_book: the category is the dumped request body
add_category_to_item_book(p) ==
  /\ Enters(p, "add_category_to_item_book")
  /\ \E t \in EntryTenants(p), item_book_id \in ItemBookIds, item_book_category \in CategoryBodies :
       BeginEdit(p, BookCall("add_category", t, item_book_id, NoKey, NoKey, NoKey, NoKey,
                             <<item_book_category>>),
                 add_category(repo_get_item_book_async(item_books, t, item_book_id),
                              item_book_category))

\* update_category_in_item_book: category_number: str = Path(...)
update_category_in_item_book(p) ==
  /\ Enters(p, "update_category_in_item_book")
  /\ \E t \in EntryTenants(p), item_book_id \in ItemBookIds, n \in CategoryNumbers,
        item_book_category \in CategoryBodies :
       BeginEdit(p, BookCall("update_category", t, item_book_id, PathStr(n), NoKey, NoKey, NoKey,
                             <<item_book_category>>),
                 update_category(repo_get_item_book_async(item_books, t, item_book_id),
                                 PathStr(n), item_book_category))

\* delete_category_from_item_book: category_number: str = Path(...)
delete_category_from_item_book(p) ==
  /\ Enters(p, "delete_category_from_item_book")
  /\ \E t \in EntryTenants(p), item_book_id \in ItemBookIds, n \in CategoryNumbers :
       BeginEdit(p, BookCall("delete_category", t, item_book_id, PathStr(n), NoKey, NoKey, NoKey, <<>>),
                 delete_category(repo_get_item_book_async(item_books, t, item_book_id), PathStr(n)))

\* variant: category_number declared str, as in the category handlers
add_tab_to_category_in_item_book_str(p) ==
  /\ Enters(p, "add_tab_to_category_in_item_book")
  /\ \E t \in EntryTenants(p), item_book_id \in ItemBookIds, n \in CategoryNumbers,
        item_book_tab \in TabBodies :
       BeginEdit(p, BookCall("add_tab", t, item_book_id, PathStr(n), NoKey, NoKey, NoKey,
                             <<item_book_tab>>),
                 add_tab(repo_get_item_book_async(item_books, t, item_book_id),
                         PathStr(n), item_book_tab))

\* add_tab_to_category_in_item_book: category_number: int = Path(...)
add_tab_to_category_in_item_book(p) ==
  /\ Enters(p, "add_tab_to_category_in_item_book")
  /\ \E t \in EntryTenants(p), item_book_id \in ItemBookIds, n \in CategoryNumbers,
        item_book_tab \in TabBodies :
       BeginEdit(p, BookCall("add_tab", t, item_book_id, PathInt(n), NoKey, NoKey, NoKey,
                             <<item_book_tab>>),
                 add_tab(repo_get_item_book_async(item_books, t, item_book_id),
                         PathInt(n), item_book_tab))

\* variant: tab_number and category_number reach the service in the wrong order
update_tab_in_category_in_item_book_swapped(p) ==
  /\ Enters(p, "update_tab_in_category_in_item_book")
  /\ \E t \in EntryTenants(p), item_book_id \in ItemBookIds, n \in CategoryNumbers, m \in TabNumbers,
        item_book_tab \in TabBodies :
       BeginEdit(p, BookCall("update_tab", t, item_book_id, PathInt(n), PathInt(m), NoKey, NoKey,
                             <<item_book_tab>>),
                 update_tab(repo_get_item_book_async(item_books, t, item_book_id),
                            PathInt(m), PathInt(n), item_book_tab))

\* update_tab_in_category_in_item_book
update_tab_in_category_in_item_book(p) ==
  /\ Enters(p, "update_tab_in_category_in_item_book")
  /\ \E t \in EntryTenants(p), item_book_id \in ItemBookIds, n \in CategoryNumbers, m \in TabNumbers,
        item_book_tab \in TabBodies :
       BeginEdit(p, BookCall("update_tab", t, item_book_id, PathInt(n), PathInt(m), NoKey, NoKey,
                             <<item_book_tab>>),
                 update_tab(repo_get_item_book_async(item_books, t, item_book_id),
                            PathInt(n), PathInt(m), item_book_tab))

\* delete_tab_from_category_in_item_book
delete_tab_from_category_in_item_book(p) ==
  /\ Enters(p, "delete_tab_from_category_in_item_book")
  /\ \E t \in EntryTenants(p), item_book_id \in ItemBookIds, n \in CategoryNumbers, m \in TabNumbers :
       BeginEdit(p, BookCall("delete_tab", t, item_book_id, PathInt(n), PathInt(m), NoKey, NoKey, <<>>),
                 delete_tab(repo_get_item_book_async(item_books, t, item_book_id),
                            PathInt(n), PathInt(m)))

\* variant: tab_number and category_number reach the service in the wrong order
add_button_to_tab_in_category_in_item_book_swapped(p) ==
  /\ Enters(p, "add_button_to_tab_in_category_in_item_book")
  /\ \E t \in EntryTenants(p), item_book_id \in ItemBookIds, n \in CategoryNumbers, m \in TabNumbers,
        item_book_button \in ButtonBodies :
       BeginEdit(p, BookCall("add_button", t, item_book_id, PathInt(n), PathInt(m), NoKey, NoKey,
                             <<item_book_button>>),
                 add_button(repo_get_item_book_async(item_books, t, item_book_id),
                            PathInt(m), PathInt(n), item_book_button))

\* add_button_to_tab_in_category_in_item_book
add_button_to_tab_in_category_in_item_book(p) ==
  /\ Enters(p, "add_button_to_tab_in_category_in_item_book")
  /\ \E t \in EntryTenants(p), item_book_id \in ItemBookIds, n \in CategoryNumbers, m \in TabNumbers,
        item_book_button \in ButtonBodies :
       BeginEdit(p, BookCall("add_button", t, item_book_id, PathInt(n), PathInt(m), NoKey, NoKey,
                             <<item_book_button>>),
                 add_button(repo_get_item_book_async(item_books, t, item_book_id),
                            PathInt(n), PathInt(m), item_book_button))

\* update_button_in_tab_in_category_in_item_book
update_button_in_tab_in_category_in_item_book(p) ==
  /\ Enters(p, "update_button_in_tab_in_category_in_item_book")
  /\ \E t \in EntryTenants(p), item_book_id \in ItemBookIds, n \in CategoryNumbers, m \in TabNumbers,
        pos \in Positions, item_book_button \in ButtonBodies :
       BeginEdit(p, BookCall("update_button", t, item_book_id, PathInt(n), PathInt(m),
                             PathInt(pos[1]), PathInt(pos[2]), <<item_book_button>>),
                 update_button(repo_get_item_book_async(item_books, t, item_book_id),
                               PathInt(n), PathInt(m), PathInt(pos[1]), PathInt(pos[2]),
                               item_book_button))

\* delete_button_from_tab_in_category_in_item_book
delete_button_from_tab_in_category_in_item_book(p) ==
  /\ Enters(p, "delete_button_from_tab_in_category_in_item_book")
  /\ \E t \in EntryTenants(p), item_book_id \in ItemBookIds, n \in CategoryNumbers, m \in TabNumbers,
        pos \in Positions :
       BeginEdit(p, BookCall("delete_button", t, item_book_id, PathInt(n), PathInt(m),
                             PathInt(pos[1]), PathInt(pos[2]), <<>>),
                 delete_button(repo_get_item_book_async(item_books, t, item_book_id),
                               PathInt(n), PathInt(m), PathInt(pos[1]), PathInt(pos[2])))

\* every edit ends the same way: the edited document is written back whole
\* and the stored document is returned
update_item_book_async(p) ==
  /\ call[p].pc = "persist"
  /\ LET c == call[p]
         log == Append(c.log, "update_item_book_async")
         success == repo_get_item_book_async(item_books, c.tenant, c.code) # NoDoc
     IN  /\ item_books' = repo_update_item_book_async(item_books, c.tenant, c.code, c.doc[1])
         /\ call' = [call EXCEPT ![p] =
              IF success
              THEN BookRequest("done", c, "ok", None,
                               repo_get_item_book_async(item_books', c.tenant, c.code), NoDoc, log)
              ELSE BookRequest("done", c, "Exception", None, NoDoc, NoDoc, log)]
  /\ UNCHANGED <<category_discounts, discount_stores, cart_vars>>

\* ---------------------------------------------------------------- cart: CategoryDiscountDetailWebRepository
\* One repository instance of tenant CartTenant.  Its cache
\* category_discount_detail_documents is None or a list: <<>> is None and
\* <<list>> is a list.  upstream_requests lists the requests the instance has
\* sent to the master-data service since its cache list was installed.
CartTenant == "T1"
CartCategoryCodes == {"c1", "c2", "c3"}

\* CategoryDiscountDetailsDocument(**data): the fields of the response data
CategoryDiscountDetailsDocument(data) ==
  [tenant_id |-> data.tenant_id, category_code |-> data.category_code,
   store_code |-> data.store_code, discount_code |-> data.discount_code,
   description |-> data.description, description_short |-> data.description_short,
   discount_value |-> data.discount_value]

\* the list behind the cache attribute
CacheList(cache) == IF cache = NoCache THEN <<>> ELSE cache[1]

\* next((item for item in cache if item.category_code == category_code), None)
CachedItem(cache, category_code) ==
  LET S == {i \in DOMAIN CacheList(cache) : CacheList(cache)[i].category_code = category_code}
  IN  IF S = {} THEN NoDoc ELSE <<CacheList(cache)[LeastOf(S)]>>

\* what the master-data service answers to
\* GET /tenants/{tenant_id}/category_discounts/{category_code}/detail from
\* its collections: get_category_discount_detail over the detail service
master_data_detail(tenant_id, category_code) ==
  LET category_discount_master_doc ==
        repo_get_category_discount_by_code_async(category_discounts, tenant_id, category_code)
  IN  IF category_discount_master_doc = NoDoc
      THEN detail_without_master(CategoryDiscountDetailDocument)
      ELSE LET detail == detail_from_master(CategoryDiscountDetailDocument,
                                            category_discount_master_doc[1])
               discount_master ==
                 repo_get_discount_store_by_code_async(
                   discount_stores, tenant_id, category_discount_master_doc[1].discount_code)
           IN  IF discount_master = NoDoc THEN detail_without_discount(detail)
               ELSE detail_with_discount(detail, discount_master[1])

\* the exceptions client.get may raise: with a status_code (<<404>>, <<500>>)
\* or without one (<<>>, a connection error)
ClientErrors == {[status_code |-> <<404>>], [status_code |-> <<500>>], [status_code |-> <<>>]}

\* variant: the 404 test is lost, every failure is a RepositoryException
raised_for_all_repository(e) == "RepositoryException"

\* the except clause: hasattr(e, "status_code") and e.status_code == 404
raised_for(e) ==
  IF e.status_code # <<>> /\ e.status_code = <<404>> THEN "NotFoundException"
  ELSE "RepositoryException"

CartRequest(pc, category_code, status, value, error, log) ==
  [pc |-> pc, op |-> "cart_get_category_discount_detail", tenant |-> CartTenant,
   code |-> category_code, status |-> status, value |-> value, error |-> error, log |-> log]

\* the lists a caller may hand to the repository as its cache
PreloadedLists ==
  {<<>>,
   <<[tenant_id |-> "T1", category_code |-> "c1", store_code |-> "s1", discount_code |-> "d1",
      description |-> "x", description_short |-> None, discount_value |-> <<5000>>]>>}

\* set_category_discount_detail_documents: the cache list is replaced
set_category_discount_detail_documents(p) ==
  /\ call[p].pc = "idle"
  /\ \E list \in PreloadedLists : category_discount_detail_documents' = <<list>>
  /\ upstream_requests' = <<>>
  /\ UNCHANGED <<category_discounts, discount_stores, call, book_vars>>

\* get_category_discount_detail_by_code_async up to the await of client.get:
\* the cache list is created if missing and searched
cart_get_category_discount_detail_cache(p) ==
  /\ call[p].pc = "idle"
  /\ \E category_code \in CartCategoryCodes :
       LET cache == <<CacheList(category_discount_detail_documents)>>
           item == CachedItem(cache, category_code)
       IN  /\ category_discount_detail_documents' = cache
           /\ IF item # NoDoc
              THEN call' = [call EXCEPT ![p] =
                     CartRequest("done", category_code, "ok", item, <<>>, <<"cache">>)]
              ELSE /\ Len(upstream_requests) < MaxRequests
                   /\ call' = [call EXCEPT ![p] =
                        CartRequest("request", category_code, "ok", NoDoc, <<>>, <<"cache">>)]
  /\ UNCHANGED <<category_discounts, discount_stores, book_vars, upstream_requests>>

\* client.get returns or raises
cart_get_category_discount_detail_response(p) ==
  /\ call[p].pc = "request"
  /\ LET c == call[p]
         answer == master_data_detail(c.tenant, c.code)
         log == Append(c.log, "client.get")
     IN  \/ /\ answer.status = "ok"
            /\ category_discount_detail_documents' =
                 <<Append(CacheList(category_discount_detail_documents),
                          CategoryDiscountDetailsDocument(answer.value[1]))>>
            /\ upstream_requests' =
                 Append(upstream_requests, [category_code |-> c.code, status |-> "ok"])
            /\ call' = [call EXCEPT ![p] =
                 CartRequest("done", c.code, "ok",
                             <<CategoryDiscountDetailsDocument(answer.value[1])>>, <<>>, log)]
         \/ \E e \in ClientErrors :
              /\ e.status_code = <<404>> => answer.status = "DocumentNotFoundException"
              /\ category_discount_detail_documents' = category_discount_detail_documents
              /\ upstream_requests' =
                   Append(upstream_requests, [category_code |-> c.code, status |-> "failed"])
              /\ call' = [call EXCEPT ![p] =
                   CartRequest("done", c.code, raised_for(e), NoDoc, <<e>>, log)]
  /\ UNCHANGED <<category_discounts, discount_stores, book_vars>>

\* ---------------------------------------------------------------- lists
Limits == 1..MaxLimit
Pages == 1..MaxPage

\* sort arguments: a list of (field, direction) pairs
CategoryKeySort == <<<<"category_code", 1>>>>
DiscountKeySort == <<<<"discount_code", 1>>>>

CategorySorts ==
  {<<<<"category_code", 1>>>>, <<<<"category_code", -1>>>>, <<<<"discount_code", 1>>>>,
   <<<<"discount_code", -1>>, <<"category_code", 1>>>>}

DiscountSorts ==
  {<<<<"discount_code", 1>>>>, <<<<"discount_code", -1>>>>, <<<<"store_code", 1>>>>,
   <<<<"store_code", -1>>, <<"discount_code", 1>>>>}

\* the filter the services pass: {}
EmptyFilter == <<>>

\* filters a caller of the repository may pass
QueryFilters ==
  {EmptyFilter} \cup {[tenant_id |-> t] : t \in Tenants} \cup {[store_code |-> "s1"]}

\* a finished list call.  query_filter is the dict the caller passed, as it
\* was at the call; the repository assigns its tenant_id to that same dict, so
\* query_filter_after is what the caller holds after the call
DoneList(op, t, query_filter, limit, page, sort, value, log) ==
  [pc |-> "done", op |-> op, tenant |-> t, code |-> None, query_filter |-> query_filter,
   query_filter_after |-> WithTenant(query_filter, t),
   limit |-> limit, page |-> page, sort |-> sort, status |-> "ok", value |-> value, log |-> log]

\* CategoryDiscountMasterService.get_category_discount_paginated_async
get_category_discount_paginated_async(p, limits, pages, sorts) ==
  /\ Enters(p, "get_category_discounts")
  /\ \E t \in EntryTenants(p), limit \in limits, page \in pages, sort \in sorts :
       \E perm \in SortedOrders(Matching(category_discounts, WithTenant(EmptyFilter, t)), sort) :
         call' = [call EXCEPT ![p] =
           DoneList("get_category_discount_paginated", t, EmptyFilter, limit, page, sort,
             repo_get_category_discount_by_filter_paginated_async(
               category_discounts, t, EmptyFilter, limit, page, sort, perm),
             Append(EntryLog(p), "get_category_discount_by_filter_paginated_async"))]
  /\ UNCHANGED <<category_discounts, discount_stores, book_vars, cart_vars>>

\* CategoryDiscountMasterRepository.get_category_discount_by_filter_paginated_async,
\* called with a filter of the caller's
get_category_discount_by_filter_paginated_async(p, limits, pages, sorts) ==
  /\ call[p].pc = "idle"
  /\ \E t \in Tenants, query_filter \in QueryFilters, limit \in limits, page \in pages,
        sort \in sorts :
       \E perm \in SortedOrders(Matching(category_discounts, WithTenant(query_filter, t)), sort) :
         call' = [call EXCEPT ![p] =
           DoneList("get_category_discount_by_filter_paginated", t, query_filter, limit, page, sort,
             repo_get_category_discount_by_filter_paginated_async(
               category_discounts, t, query_filter, limit, page, sort, perm),
             <<"get_category_discount_by_filter_paginated_async">>)]
  /\ UNCHANGED <<category_discounts, discount_stores, book_vars, cart_vars>>

\* DiscountStoreMasterService.get_discount_store_paginated_async
get_discount_store_paginated_async(p, limits, pages, sorts) ==
  /\ Enters(p, "get_discounts")
  /\ \E t \in EntryTenants(p), limit \in limits, page \in pages, sort \in sorts :
       \E perm \in SortedOrders(Matching(discount_stores, WithTenant(EmptyFilter, t)), sort) :
         call' = [call EXCEPT ![p] =
           DoneList("get_discount_store_paginated", t, EmptyFilter, limit, page, sort,
             repo_get_discount_store_by_filter_paginated_async(
               discount_stores, t, EmptyFilter, limit, page, sort, perm),
             Append(EntryLog(p), "get_discount_store_by_filter_paginated_async"))]
  /\ UNCHANGED <<category_discounts, discount_stores, book_vars, cart_vars>>

\* DiscountStoreMasterRepository.get_discount_store_by_filter_paginated_async,
\* called with a filter of the caller's
get_discount_store_by_filter_paginated_async(p, limits, pages, sorts) ==
  /\ call[p].pc = "idle"
  /\ \E t \in Tenants, query_filter \in QueryFilters, limit \in limits, page \in pages,
        sort \in sorts :
       \E perm \in SortedOrders(Matching(discount_stores, WithTenant(query_filter, t)), sort) :
         call' = [call EXCEPT ![p] =
           DoneList("get_discount_store_by_filter_paginated", t, query_filter, limit, page, sort,
             repo_get_discount_store_by_filter_paginated_async(
               discount_stores, t, query_filter, limit, page, sort, perm),
             <<"get_discount_store_by_filter_paginated_async">>)]
  /\ UNCHANGED <<category_discounts, discount_stores, book_vars, cart_vars>>

\* a client pages through the store discounts of a tenant: page 1, 2, ... with
\* one limit and one sort, until the pages fetched cover total_count
discount_store_pages_begin(p) ==
  /\ call[p].pc = "idle"
  /\ \E t \in Tenants, limit \in Limits, sort \in DiscountSorts :
       call' = [call EXCEPT ![p] =
         [pc |-> "paging", op |-> "discount_store_pages", tenant |-> t, code |-> None,
          limit |-> limit, sort |-> sort, page |-> 1, pages |-> <<>>]]
  /\ UNCHANGED <<category_discounts, discount_stores, book_vars, cart_vars>>

discount_store_pages_next(p) ==
  /\ call[p].pc = "paging"
  /\ LET c == call[p]
     IN  \E perm \in SortedOrders(Matching(discount_stores, WithTenant(EmptyFilter, c.tenant)), c.sort) :
           LET paginated_result ==
                 repo_get_discount_store_by_filter_paginated_async(
                   discount_stores, c.tenant, EmptyFilter, c.limit, c.page, c.sort, perm)
               pages == Append(c.pages, paginated_result.data)
           IN  IF c.page * c.limit >= paginated_result.metadata.total_count
               THEN call' = [call EXCEPT ![p] =
                      [pc |-> "done", op |-> c.op, tenant |-> c.tenant, code |-> None,
                       limit |-> c.limit, sort |-> c.sort, status |-> "ok", value |-> pages,
                       log |-> <<>>]]
               ELSE call' = [call EXCEPT ![p] = [c EXCEPT !.page = c.page + 1, !.pages = pages]]
  /\ UNCHANGED <<category_discounts, discount_stores, book_vars, cart_vars>>

\* ---------------------------------------------------------------- PUT handlers of the discounts
\* the update request models: every field is optional and defaults to None
CategoryDiscountMasterUpdateRequest ==
  [store_code |-> None, discount_code |-> None, description |-> None]

DiscountStoreMasterUpdateRequest ==
  [store_code |-> None, discount_value |-> NoValue, description |-> None]

\* model.model_dump(): every field of the model, the ones the request body
\* did not give at their default
model_dump(model, body) ==
  [k \in DOMAIN model |-> IF k \in DOMAIN body THEN body[k] ELSE model[k]]

\* request bodies: the fields a client supplies
CategoryUpdateBodies ==
  {[discount_code |-> d] : d \in DiscountCodes}
  \cup {[description |-> "y"]}
  \cup {[store_code |-> "s1", discount_code |-> d, description |-> "x"] : d \in DiscountCodes}

DiscountUpdateBodies ==
  {[discount_value |-> <<v>>] : v \in DiscountValues}
  \cup {[description |-> "y"]}
  \cup {[store_code |-> "s1", discount_value |-> <<5000>>, description |-> "x"]}

\* update_category_discount: update_category_discount_async is called with
\* update_data=category.model_dump(); this is its existence check
update_category_discount(p) ==
  /\ Enters(p, "update_category_discount")
  /\ \E t \in EntryTenants(p), category_code \in CategoryCodes, body \in CategoryUpdateBodies :
       LET c == [op |-> "update_category_discount", tenant |-> t, code |-> category_code]
           update_data == model_dump(CategoryDiscountMasterUpdateRequest, body)
           category == repo_get_category_discount_by_code_async(category_discounts, t, category_code)
           log == Append(EntryLog(p), "get_category_discount_by_code_async")
       IN  IF category = NoDoc
           THEN call' = [call EXCEPT ![p] = Done(c, "DocumentNotFoundException", NoDoc, log)]
           ELSE call' = [call EXCEPT ![p] =
                  [pc |-> "update", op |-> c.op, tenant |-> t, code |-> category_code,
                   update_data |-> update_data, body |-> body, log |-> log]]
  /\ UNCHANGED <<category_discounts, discount_stores, book_vars, cart_vars>>

\* update_discount: update_discount_store_async is called with
\* update_data=discount.model_dump(); this is its existence check
update_discount(p) ==
  /\ Enters(p, "update_discount")
  /\ \E t \in EntryTenants(p), discount_code \in DiscountCodes, body \in DiscountUpdateBodies :
       LET c == [op |-> "update_discount_store", tenant |-> t, code |-> discount_code]
           update_data == model_dump(DiscountStoreMasterUpdateRequest, body)
           discount == repo_get_discount_store_by_code_async(discount_stores, t, discount_code)
           log == Append(EntryLog(p), "get_discount_store_by_code_async")
       IN  IF discount = NoDoc
           THEN call' = [call EXCEPT ![p] = Done(c, "DocumentNotFoundException", NoDoc, log)]
           ELSE call' = [call EXCEPT ![p] =
                  [pc |-> "update", op |-> c.op, tenant |-> t, code |-> discount_code,
                   update_data |-> update_data, body |-> body, log |-> log]]
  /\ UNCHANGED <<category_discounts, discount_stores, book_vars, cart_vars>>

\* ---------------------------------------------------------------- DELETE handlers of the discounts
\* delete_category_discount: the handler looks the document up, raises if
\* there is none, and then calls delete_category_discount_async
delete_category_discount(p) ==
  /\ call[p].pc = "resolved"
  /\ call[p].handler = "delete_category_discount"
  /\ call[p].code = None
  /\ \E category_code \in CategoryCodes :
       LET c == [op |-> "delete_category_discount", tenant |-> call[p].tenant,
                 code |-> category_code]
           existing_category_discount ==
             repo_get_category_discount_by_code_async(category_discounts, c.tenant, category_code)
           log == Append(call[p].log, "get_category_discount_by_code_async")
       IN  IF existing_category_discount = NoDoc
           THEN call' = [call EXCEPT ![p] = Done(c, "DocumentNotFoundException", NoDoc, log)]
           ELSE call' = [call EXCEPT ![p] = [call[p] EXCEPT !.code = category_code, !.log = log]]
  /\ UNCHANGED <<category_discounts, discount_stores, book_vars, cart_vars>>

\* delete_discount: the same for a store discount
delete_discount(p) ==
  /\ call[p].pc = "resolved"
  /\ call[p].handler = "delete_discount"
  /\ call[p].code = None
  /\ \E discount_code \in DiscountCodes :
       LET c == [op |-> "delete_discount_store", tenant |-> call[p].tenant,
                 code |-> discount_code]
           discount ==
             repo_get_discount_store_by_code_async(discount_stores, c.tenant, discount_code)
           log == Append(call[p].log, "get_discount_store_by_code_async")
       IN  IF discount = NoDoc
           THEN call' = [call EXCEPT ![p] = Done(c, "DocumentNotFoundException", NoDoc, log)]
           ELSE call' = [call EXCEPT ![p] = [call[p] EXCEPT !.code = discount_code, !.log = log]]
  /\ UNCHANGED <<category_discounts, discount_stores, book_vars, cart_vars>>

\* ---------------------------------------------------------------- the other item book handlers
\* get_item_book_detail_by_id: the item book with its item details
get_item_book_detail_by_id(p) ==
  /\ Enters(p, "get_item_book_detail_by_id")
  /\ \E t \in EntryTenants(p), item_book_id \in ItemBookIds :
       LET c == BookCall("get_item_book_detail_by_id", t, item_book_id,
                         NoKey, NoKey, NoKey, NoKey, <<>>)
           found == repo_get_item_book_async(item_books, t, item_book_id)
           log == Append(EntryLog(p), "get_item_book_async")
       IN  call' = [call EXCEPT ![p] =
             IF found = NoDoc
             THEN BookRequest("done", c, "DocumentNotFoundException", "item_book", NoDoc, NoDoc, log)
             ELSE BookRequest("done", c, "ok", None, found, NoDoc, log)]
  /\ UNCHANGED <<category_discounts, discount_stores, book_vars, cart_vars>>

\* get_all_item_books: the item books of the tenant (limit defaults to 100)
get_all_item_books(p) ==
  /\ Enters(p, "get_all_item_books")
  /\ \E t \in EntryTenants(p) :
       LET c == BookCall("get_all_item_books", t, None, NoKey, NoKey, NoKey, NoKey, <<>>)
           found == Matching(item_books, [tenant_id |-> t])
           log == Append(EntryLog(p), "get_item_book_all_paginated_async")
       IN  call' = [call EXCEPT ![p] =
             BookRequest("done", c, "ok", None, found, NoDoc, log)]
  /\ UNCHANGED <<category_discounts, discount_stores, book_vars, cart_vars>>

\* update_item_book: the title of the dumped request replaces the stored one
update_item_book(p) ==
  /\ Enters(p, "update_item_book")
  /\ \E t \in EntryTenants(p), item_book_id \in ItemBookIds, title \in Titles :
       LET c == BookCall("update_item_book", t, item_book_id, NoKey, NoKey, NoKey, NoKey, <<>>)
           found == repo_get_item_book_async(item_books, t, item_book_id)
           log == Append(EntryLog(p), "update_item_book_async")
       IN  /\ item_books' = update_one_async(item_books, item_book_query_filter(t, item_book_id),
                                             [title |-> title])
           /\ call' = [call EXCEPT ![p] =
                IF found = NoDoc
                THEN BookRequest("done", c, "DocumentNotFoundException", "item_book",
                                 NoDoc, NoDoc, log)
                ELSE BookRequest("done", c, "ok", None,
                                 repo_get_item_book_async(item_books', t, item_book_id), NoDoc, log)]
  /\ UNCHANGED <<category_discounts, discount_stores, cart_vars>>

\* ---------------------------------------------------------------- the start of every handler
CategoryDiscountHandlers ==
  {"create_category_discount", "get_category_discounts", "get_category_discount",
   "get_category_discount_detail", "update_category_discount", "delete_category_discount"}

DiscountStoreHandlers ==
  {"create_discount_store", "get_discounts", "get_discount", "update_discount",
   "delete_discount"}

ItemBookHandlers ==
  {"create_item_book", "get_item_book_by_id", "get_item_book_detail_by_id",
   "get_all_item_books", "update_item_book", "delete_item_book",
   "add_category_to_item_book", "update_category_in_item_book",
   "delete_category_from_item_book", "add_tab_to_category_in_item_book",
   "update_tab_in_category_in_item_book", "delete_tab_from_category_in_item_book",
   "add_button_to_tab_in_category_in_item_book",
   "update_button_in_tab_in_category_in_item_book",
   "delete_button_from_tab_in_category_in_item_book"}

MasterDataHandlers == CategoryDiscountHandlers \cup DiscountStoreHandlers \cup ItemBookHandlers

\* kugel_common.security.verify_tenant_id: passes when the tenant of the
\* credentials is the tenant of the path, raises otherwise
verify_tenant_id(tenant_id, tenant_id_with_security) == tenant_id = tenant_id_with_security

HandlerRequest(pc, handler, tenant_id, tenant_id_with_security, log) ==
  [pc |-> pc, handler |-> handler, tenant |-> tenant_id,
   tenant_id_with_security |-> tenant_id_with_security, code |-> None, log |-> log]

\* the first statement of a handler: verify_tenant_id(tenant_id,
\* tenant_id_with_security, logger); what it raises ends the request
handler_verify_tenant_id(p) ==
  /\ call[p].pc = "free"
  /\ \E handler \in MasterDataHandlers, tenant_id \in Tenants, tenant_id_with_security \in Tenants :
       call' = [call EXCEPT ![p] =
         IF verify_tenant_id(tenant_id, tenant_id_with_security)
         THEN HandlerRequest("verified", handler, tenant_id, tenant_id_with_security,
                             <<"verify_tenant_id">>)
         ELSE [pc |-> "done", op |-> handler, tenant |-> tenant_id, code |-> None,
               tenant_id_with_security |-> tenant_id_with_security,
               status |-> "rejected", value |-> NoDoc, log |-> <<"verify_tenant_id">>]]
  /\ UNCHANGED <<category_discounts, discount_stores, book_vars, cart_vars>>

\* variant: a handler that resolves its service without verifying the tenant
handler_get_service_async_unverified(p) ==
  /\ call[p].pc = "free"
  /\ \E handler \in MasterDataHandlers, tenant_id \in Tenants, tenant_id_with_security \in Tenants :
       call' = [call EXCEPT ![p] =
         HandlerRequest("resolved", handler, tenant_id, tenant_id_with_security,
                        <<"get_service_async">>)]
  /\ UNCHANGED <<category_discounts, discount_stores, book_vars, cart_vars>>

\* the second statement: service = await get_..._service_async(tenant_id)
handler_get_service_async(p) ==
  /\ call[p].pc = "verified"
  /\ call' = [call EXCEPT ![p] =
       HandlerRequest("resolved", call[p].handler, call[p].tenant,
                      call[p].tenant_id_with_security,
                      Append(call[p].log, "get_service_async"))]
  /\ UNCHANGED <<category_discounts, discount_stores, book_vars, cart_vars>>

\* the caller takes the result; the request slot is free again
Return(p) ==
  /\ call[p].pc = "done"
  /\ call' = [call EXCEPT ![p] = Idle]
  /\ UNCHANGED <<category_discounts, discount_stores, book_vars, cart_vars>>

\* ---------------------------------------------------------------- specification
Init ==
  /\ category_discounts = <<>>
  /\ discount_stores = <<>>
  /\ call = [p \in Procs |-> Idle]
  /\ item_books = <<>>
  /\ category_discount_detail_documents = NoCache
  /\ upstream_requests = <<>>

\* one request at a time
Next ==
  \/ create_category_discount_check("r1", {"x"})
  \/ create_category_discount_insert("r1")
  \/ get_category_discount_by_code_async("r1")
  \/ update_category_discount_check("r1")
  \/ update_category_discount_write("r1")
  \/ update_category_discount_refetch("r1")
  \/ delete_category_discount_check("r1")
  \/ delete_category_discount_write("r1")
  \/ get_category_discount_detail_master("r1")
  \/ get_category_discount_detail_discount("r1")
  \/ create_discount_store_check("r1")
  \/ create_discount_store_insert("r1")
  \/ get_discount_store_by_code_async("r1")
  \/ update_discount_store_check("r1")
  \/ update_discount_store_write("r1")
  \/ update_discount_store_refetch("r1")
  \/ delete_discount_store_check("r1")
  \/ delete_discount_store_write("r1")
  \/ get_category_discount_paginated_async("r1", {MaxLimit}, {1}, {CategoryKeySort})
  \/ get_category_discount_by_filter_paginated_async("r1", {MaxLimit}, {1}, {CategoryKeySort})
  \/ get_discount_store_paginated_async("r1", {MaxLimit}, {1}, {DiscountKeySort})
  \/ get_discount_store_by_filter_paginated_async("r1", {MaxLimit}, {1}, {DiscountKeySort})
  \/ Return("r1")

Spec == Init /\ [][Next]_vars

\* concurrent create and read requests
NextRace ==
  \/ \E p \in Procs : create_category_discount_check(p, Descriptions)
  \/ \E p \in Procs : create_category_discount_insert(p)
  \/ \E p \in Procs : get_category_discount_detail_master(p)
  \/ \E p \in Procs : get_category_discount_detail_discount(p)
  \/ \E p \in Procs : create_discount_store_check(p)
  \/ \E p \in Procs : create_discount_store_insert(p)
  \/ \E p \in Procs : Return(p)

SpecRace == Init /\ [][NextRace]_vars

\* ---------------------------------------------------------------- paging through a fixed store
PageCategoryCodes == {"c1", "c2", "c3", "c4"}
PageDiscountCodes == {"d1", "d2", "d3", "d4"}

\* documents as the create requests of the services store them
PageCategoryDocs ==
  {StampTenant(k[1], [CategoryDiscountMasterDocument EXCEPT
      !.category_code = k[2], !.store_code = "s1", !.description = "x",
      !.discount_code = IF k[2] \in {"c1", "c2"} THEN "d1" ELSE "d2"]) :
   k \in ({"T1"} \X PageCategoryCodes) \cup {<<"T2", "c1">>}}

PageDiscountDocs ==
  {StampTenant(k[1], [DiscountStoreMasterDocument EXCEPT
      !.discount_code = k[2], !.discount_value = <<5000>>, !.description = "x",
      !.store_code = IF k[2] \in {"d1", "d2"} THEN "s1" ELSE "s2"]) :
   k \in ({"T1"} \X PageDiscountCodes) \cup {<<"T2", "d1">>}}

\* collections of at most MaxPageDocs different documents, in any insertion order
Collections(docs) ==
  {coll \in UNION {[1..n -> docs] : n \in 0..MaxPageDocs} :
     \A i, j \in DOMAIN coll : i # j => coll[i] # coll[j]}

InitPage ==
  /\ \/ category_discounts \in Collections(PageCategoryDocs) /\ discount_stores = <<>>
     \/ category_discounts = <<>> /\ discount_stores \in Collections(PageDiscountDocs)
  /\ call = [p \in Procs |-> Idle]
  /\ item_books = <<>>
  /\ category_discount_detail_documents = NoCache
  /\ upstream_requests = <<>>

NextPage ==
  \/ get_category_discount_paginated_async("r1", Limits, Pages, CategorySorts)
  \/ get_category_discount_by_filter_paginated_async("r1", Limits, Pages, CategorySorts)
  \/ get_discount_store_paginated_async("r1", Limits, Pages, DiscountSorts)
  \/ get_discount_store_by_filter_paginated_async("r1", Limits, Pages, DiscountSorts)
  \/ discount_store_pages_begin("r1")
  \/ discount_store_pages_next("r1")
  \/ Return("r1")

SpecPage == InitPage /\ [][NextPage]_vars

\* ---------------------------------------------------------------- item book editing
NextBook ==
  \/ create_item_book("r1")
  \/ get_item_book_by_id("r1")
  \/ delete_item_book("r1")
  \/ add_category_to_item_book("r1")
  \/ update_category_in_item_book("r1")
  \/ delete_category_from_item_book("r1")
  \/ add_tab_to_category_in_item_book("r1")
  \/ update_tab_in_category_in_item_book("r1")
  \/ delete_tab_from_category_in_item_book("r1")
  \/ add_button_to_tab_in_category_in_item_book("r1")
  \/ update_button_in_tab_in_category_in_item_book("r1")
  \/ delete_button_from_tab_in_category_in_item_book("r1")
  \/ update_item_book_async("r1")
  \/ Return("r1")

SpecBook == Init /\ [][NextBook]_vars

\* ---------------------------------------------------------------- item book edits that overlap
\* an item book of tenant T1 with one category and one tab
RaceItemBook ==
  ItemBookMasterDocument("T1", "b1", "x", <<ItemBookCategory(1, "x", <<ItemBookTab(1, "x", <<>>)>>)>>)

InitBookRace ==
  /\ category_discounts = <<>>
  /\ discount_stores = <<>>
  /\ call = [p \in Procs |-> Idle]
  /\ item_books = <<RaceItemBook>>
  /\ category_discount_detail_documents = NoCache
  /\ upstream_requests = <<>>

\* add requests of two clients; each loads the book, edits it in memory and
\* writes it back in a later step
NextBookRace ==
  \/ \E p \in Procs : add_category_to_item_book(p)
  \/ \E p \in Procs : add_tab_to_category_in_item_book(p)
  \/ \E p \in Procs : add_button_to_tab_in_category_in_item_book(p)
  \/ \E p \in Procs : update_item_book_async(p)
  \/ \E p \in Procs : Return(p)

SpecBookRace == InitBookRace /\ [][NextBookRace]_vars

\* ---------------------------------------------------------------- the cart repository against a fixed master
\* tenant T1 has category discount c1 with its store discount d1 and category
\* discount c2 whose store discount d2 is missing; it has no category discount c3
CartCategoryDiscounts ==
  <<StampTenant("T1", [CategoryDiscountMasterDocument EXCEPT
       !.category_code = "c1", !.store_code = "s1", !.discount_code = "d1", !.description = "x"]),
    StampTenant("T1", [CategoryDiscountMasterDocument EXCEPT
       !.category_code = "c2", !.store_code = "s1", !.discount_code = "d2", !.description = "x"])>>

CartDiscountStores ==
  <<StampTenant("T1", [DiscountStoreMasterDocument EXCEPT
       !.discount_code = "d1", !.store_code = "s1", !.discount_value = <<5000>>,
       !.description = "x"])>>

\* the repository is constructed without a cache list, or with a preloaded one
InitCart ==
  /\ category_discounts = CartCategoryDiscounts
  /\ discount_stores = CartDiscountStores
  /\ call = [p \in Procs |-> Idle]
  /\ item_books = <<>>
  /\ category_discount_detail_documents \in {NoCache} \cup {<<list>> : list \in PreloadedLists \ {<<>>}}
  /\ upstream_requests = <<>>

NextCart ==
  \/ set_category_discount_detail_documents("r1")
  \/ cart_get_category_discount_detail_cache("r1")
  \/ cart_get_category_discount_detail_response("r1")
  \/ Return("r1")

SpecCart == InitCart /\ [][NextCart]_vars

\* calls on one repository instance that overlap while they await client.get
NextCartRace ==
  \/ \E p \in Procs : set_category_discount_detail_documents(p)
  \/ \E p \in Procs : cart_get_category_discount_detail_cache(p)
  \/ \E p \in Procs : cart_get_category_discount_detail_response(p)
  \/ \E p \in Procs : Return(p)

SpecCartRace == InitCart /\ [][NextCartRace]_vars

\* ---------------------------------------------------------------- updates of a fixed store
InitPut ==
  /\ category_discounts = CartCategoryDiscounts
  /\ discount_stores = CartDiscountStores
  /\ call = [p \in Procs |-> Idle]
  /\ item_books = <<>>
  /\ category_discount_detail_documents = NoCache
  /\ upstream_requests = <<>>

\* updates through the PUT handlers and updates that call the services
NextPut ==
  \/ update_category_discount("r1")
  \/ update_category_discount_check("r1")
  \/ update_category_discount_write("r1")
  \/ update_category_discount_refetch("r1")
  \/ update_discount("r1")
  \/ update_discount_store_check("r1")
  \/ update_discount_store_write("r1")
  \/ update_discount_store_refetch("r1")
  \/ Return("r1")

SpecPut == InitPut /\ [][NextPut]_vars

\* ---------------------------------------------------------------- one HTTP request
\* an item book of tenant T1 with one category, one tab and one button
HandlerItemBook ==
  ItemBookMasterDocument("T1", "b2", "x",
    <<ItemBookCategory(1, "x", <<ItemBookTab(1, "x", <<ItemBookButton(0, 0, "i1")>>)>>)>>)

\* the store before the request: each collection empty or holding one document
InitHandler ==
  /\ category_discounts \in {<<>>, SubSeq(CartCategoryDiscounts, 1, 1)}
  /\ discount_stores \in {<<>>, CartDiscountStores}
  /\ item_books \in {<<>>, <<HandlerItemBook>>}
  /\ call = [p \in Procs |-> Free]
  /\ category_discount_detail_documents = NoCache
  /\ upstream_requests = <<>>

\* one request to any handler, with credentials of any tenant
NextHandler ==
  \/ handler_verify_tenant_id("r1")
  \/ handler_get_service_async("r1")
  \/ create_category_discount_check("r1", {"x"})
  \/ create_category_discount_insert("r1")
  \/ get_category_discount_paginated_async("r1", {MaxLimit}, {1}, {CategoryKeySort})
  \/ get_category_discount_by_code_async("r1")
  \/ get_category_discount_detail_master("r1")
  \/ get_category_discount_detail_discount("r1")
  \/ update_category_discount("r1")
  \/ update_category_discount_write("r1")
  \/ update_category_discount_refetch("r1")
  \/ delete_category_discount("r1")
  \/ delete_category_discount_check("r1")
  \/ delete_category_discount_write("r1")
  \/ create_discount_store_check("r1")
  \/ create_discount_store_insert("r1")
  \/ get_discount_store_paginated_async("r1", {MaxLimit}, {1}, {DiscountKeySort})
  \/ get_discount_store_by_code_async("r1")
  \/ update_discount("r1")
  \/ update_discount_store_write("r1")
  \/ update_discount_store_refetch("r1")
  \/ delete_discount("r1")
  \/ delete_discount_store_check("r1")
  \/ delete_discount_store_write("r1")
  \/ create_item_book("r1")
  \/ get_item_book_by_id("r1")
  \/ get_item_book_detail_by_id("r1")
  \/ get_all_item_books("r1")
  \/ update_item_book("r1")
  \/ delete_item_book("r1")
  \/ add_category_to_item_book("r1")
  \/ update_category_in_item_book("r1")
  \/ delete_category_from_item_book("r1")
  \/ add_tab_to_category_in_item_book("r1")
  \/ update_tab_in_category_in_item_book("r1")
  \/ delete_tab_from_category_in_item_book("r1")
  \/ add_button_to_tab_in_category_in_item_book("r1")
  \/ update_button_in_tab_in_category_in_item_book("r1")
  \/ delete_button_from_tab_in_category_in_item_book("r1")
  \/ update_item_book_async("r1")

SpecHandler == InitHandler /\ [][NextHandler]_vars

\* ---------------------------------------------------------------- callers of the repositories
NextRepository ==
  \/ repository_create_category_discount_async("r1")
  \/ repository_create_discount_store_async("r1")
  \/ repository_replace_category_discount_async("r1")
  \/ repository_replace_discount_store_async("r1")
  \/ Return("r1")

SpecRepository == Init /\ [][NextRepository]_vars

\* ---------------------------------------------------------------- properties
\* the request slot p takes a step
Steps(p) == call'[p] # call[p]

\* the request slot p starts a call of op
Starts(p, ops) == call[p].pc = "idle" /\ call'[p].pc # "idle" /\ call'[p].op \in ops

\* the tenant whose repositories the step of p works through
StepTenant(p) == IF call[p].pc = "idle" THEN call'[p].tenant ELSE call[p].tenant

\* the documents of coll that belong to other tenants than t
OtherTenants(coll, t) ==
  LET Test(doc) == doc.tenant_id # t IN SelectSeq(coll, Test)

HasCategoryDiscount(t, category_code) ==
  \E i \in DOMAIN category_discounts :
    category_discounts[i].tenant_id = t /\ category_discounts[i].category_code = category_code

HasDiscountStore(t, discount_code) ==
  \E i \in DOMAIN discount_stores :
    discount_stores[i].tenant_id = t /\ discount_stores[i].discount_code = discount_code

Range(seq) == {seq[i] : i \in DOMAIN seq}

GetOps == {"get_category_discount_by_code", "get_discount_store_by_code"}
UpdateOps == {"update_category_discount", "update_discount_store"}
DeleteOps == {"delete_category_discount", "delete_discount_store"}
CreateOps == {"create_category_discount", "create_discount_store"}
ListOps == {"get_category_discount_paginated", "get_category_discount_by_filter_paginated",
            "get_discount_store_paginated", "get_discount_store_by_filter_paginated"}

\* the documents a finished get, update or list hands to its caller
ReturnedDocs(c) ==
  IF c.status # "ok" THEN {}
  ELSE IF c.op \in GetOps \cup UpdateOps THEN Range(c.value)
  ELSE IF c.op \in ListOps THEN Range(c.value.data)
  ELSE {}

\* C1: a step taken through the repositories of tenant t leaves the documents
\* of every other tenant as they are, and a get, update or list of tenant t
\* returns documents of tenant t only, whatever key or filter it was given.
C1_TenantIsolation ==
  [][\A p \in Procs :
       Steps(p) =>
         /\ OtherTenants(category_discounts', StepTenant(p))
              = OtherTenants(category_discounts, StepTenant(p))
         /\ OtherTenants(discount_stores', StepTenant(p))
              = OtherTenants(discount_stores, StepTenant(p))
         /\ call'[p].pc = "done" =>
              \A doc \in ReturnedDocs(call'[p]) : doc.tenant_id = call'[p].tenant]_vars

\* a tenant has deleted its document while another tenant holds a document
\* with the same natural key, or has listed with a filter naming the other tenant
C1_Witness ==
  \E p \in Procs :
    /\ call[p].pc = "done"
    /\ call[p].status = "ok"
    /\ \/ /\ call[p].op = "delete_category_discount"
          /\ \E t \in Tenants \ {call[p].tenant} : HasCategoryDiscount(t, call[p].code)
       \/ /\ call[p].op = "get_discount_store_by_filter_paginated"
          /\ "tenant_id" \in DOMAIN call[p].query_filter
          /\ call[p].query_filter.tenant_id # call[p].tenant
          /\ HasDiscountStore(call[p].query_filter.tenant_id, "d1")
          /\ call[p].value.data # <<>>

\* C2: a create whose natural key exists under the tenant raises
\* DocumentAlreadyExistsException after the existence check alone and changes
\* neither collection.
C2_CreateExistingFails ==
  [][\A p \in Procs :
       (/\ Starts(p, CreateOps)
        /\ IF call'[p].op = "create_category_discount"
           THEN HasCategoryDiscount(call'[p].tenant, call'[p].code)
           ELSE HasDiscountStore(call'[p].tenant, call'[p].code))
       => /\ call'[p].pc = "done"
          /\ call'[p].status = "DocumentAlreadyExistsException"
          /\ call'[p].log \in {<<"get_category_discount_by_code_async">>,
                               <<"get_discount_store_by_code_async">>}
          /\ category_discounts' = category_discounts
          /\ discount_stores' = discount_stores]_vars

C2_Witness ==
  \E p \in Procs :
    /\ call[p].pc = "done"
    /\ call[p].op \in CreateOps
    /\ call[p].status = "DocumentAlreadyExistsException"

UniqueKeys(coll, key) ==
  \A i, j \in DOMAIN coll :
    (coll[i].tenant_id = coll[j].tenant_id /\ coll[i][key] = coll[j][key]) => i = j

\* C3: no collection holds two documents with the same tenant and natural key.
C3_UniqueNaturalKeys ==
  /\ UniqueKeys(category_discounts, "category_code")
  /\ UniqueKeys(discount_stores, "discount_code")

C5_DetailHardMiss ==
  [][\A p \in Procs :
       (/\ call[p].pc = "lookup"
        /\ Steps(p)
        /\ ~HasDiscountStore(call[p].tenant, call[p].master_discount_code))
       => /\ call'[p].pc = "done"
          /\ call'[p].status = "DocumentNotFoundException"
          /\ call'[p].value = NoDoc
          /\ category_discounts' = category_discounts
          /\ discount_stores' = discount_stores]_vars

\* the hard miss happened although another tenant has the store discount
C5_Witness ==
  \E p \in Procs :
    /\ call[p].pc = "done"
    /\ call[p].op = "get_category_discount_detail"
    /\ call[p].status = "DocumentNotFoundException"
    /\ HasCategoryDiscount(call[p].tenant, call[p].code)
    /\ \E t \in Tenants \ {call[p].tenant}, d \in DiscountCodes : HasDiscountStore(t, d)

\* the fields a detail document shares with category discount D
SameAsMaster(detail, D) ==
  \A f \in {"tenant_id", "category_code", "store_code", "discount_code", "description"} :
    detail[f] = D[f]

\* C6: a detail call that returns for category_code returns, for every
\* category discount D of the tenant with that category_code whose
\* discount_code resolves to a store discount S of the tenant, D's fields and
\* S's discount_value, and writes nothing.
C6_DetailComposition ==
  [][\A p \in Procs :
       (/\ call[p].pc = "lookup"
        /\ Steps(p)
        /\ call'[p].status = "ok")
       => /\ category_discounts' = category_discounts
          /\ discount_stores' = discount_stores
          /\ \A i \in DOMAIN category_discounts :
               LET D == category_discounts[i]
                   S == get_one_async(discount_stores,
                          [tenant_id |-> D.tenant_id, discount_code |-> D.discount_code])
               IN  (D.tenant_id = call[p].tenant /\ D.category_code = call[p].code /\ S # NoDoc)
                   => /\ SameAsMaster(call'[p].value[1], D)
                      /\ call'[p].value[1].discount_value = S[1].discount_value]_vars

\* C7: an update or delete whose natural key does not exist under the tenant
\* raises DocumentNotFoundException after the existence check alone and
\* changes neither collection.
C7_MissingKeyFails ==
  [][\A p \in Procs :
       (/\ Starts(p, UpdateOps \cup DeleteOps)
        /\ IF call'[p].op \in {"update_category_discount", "delete_category_discount"}
           THEN ~HasCategoryDiscount(call'[p].tenant, call'[p].code)
           ELSE ~HasDiscountStore(call'[p].tenant, call'[p].code))
       => /\ call'[p].pc = "done"
          /\ call'[p].status = "DocumentNotFoundException"
          /\ call'[p].log \in {<<"get_category_discount_by_code_async">>,
                               <<"get_discount_store_by_code_async">>}
          /\ category_discounts' = category_discounts
          /\ discount_stores' = discount_stores]_vars

\* the key was missing under the tenant while another tenant has it
C7_Witness ==
  \E p \in Procs :
    /\ call[p].pc = "done"
    /\ call[p].op \in {"update_discount_store", "delete_discount_store"}
    /\ call[p].status = "DocumentNotFoundException"
    /\ \E t \in Tenants \ {call[p].tenant} : HasDiscountStore(t, call[p].code)

\* the collection a list call reads
ListedCollection(c) ==
  IF c.op \in {"get_category_discount_paginated", "get_category_discount_by_filter_paginated"}
  THEN category_discounts ELSE discount_stores

\* positions of the documents of tenant t in coll that pass the caller's filter
ScopedIndexes(coll, t, query_filter) ==
  {i \in DOMAIN coll :
     /\ coll[i].tenant_id = t
     /\ \A k \in DOMAIN query_filter \ {"tenant_id"} : coll[i][k] = query_filter[k]}

Max(a, b) == IF a > b THEN a ELSE b

\* C8: a list with limit L and page P returns the documents at sorted
\* positions (P-1)*L+1 .. P*L of the tenant-scoped matches, so at most L of
\* them, and total_count is the number of all tenant-scoped matches.
C8_PageOfSortedMatches ==
  [][\A p \in Procs :
       Starts(p, ListOps) =>
         LET c == call'[p]
             coll == ListedCollection(c)
             M == ScopedIndexes(coll, c.tenant, c.query_filter)
             n == Cardinality(M)
             data == c.value.data
             first == (c.page - 1) * c.limit
         IN  /\ c.value.metadata.total_count = n
             /\ Len(data) <= c.limit
             /\ Len(data) = Max(0, Min(c.limit, n - first))
             /\ \A i \in DOMAIN data :
                  /\ \E j \in M : coll[j] = data[i]
                  /\ \A j \in DOMAIN data : data[i] = data[j] => i = j
                  /\ Cardinality({j \in M : Before(coll[j], data[i], c.sort)}) <= first + i - 1
                  /\ Cardinality({j \in M : Before(data[i], coll[j], c.sort)}) <= n - (first + i)]_vars

\* the second page of two of a tenant with three category discounts, while
\* the collection also holds a category discount of another tenant
C8_Witness ==
  \E p \in Procs :
    /\ call[p].pc = "done"
    /\ call[p].op = "get_category_discount_paginated"
    /\ call[p].limit = 2
    /\ call[p].page = 2
    /\ call[p].value.metadata.total_count = 3
    /\ Len(call[p].value.data) = 1
    /\ Len(category_discounts) = 4

\* no two of the documents tie under sort
StableSortKey(docs, sort) ==
  \A d1, d2 \in docs : d1 # d2 => (Before(d1, d2, sort) \/ Before(d2, d1, sort))

\* C9: when a client has fetched pages 1, 2, ... of the store discounts of a
\* tenant with one limit and a sort under which no two of the documents tie,
\* the pages are pairwise disjoint and together hold exactly the store
\* discounts of the tenant.
C9_PagesPartition ==
  \A p \in Procs :
    (/\ call[p].pc = "done"
     /\ call[p].op = "discount_store_pages"
     /\ StableSortKey({discount_stores[i] : i \in ScopedIndexes(discount_stores, call[p].tenant, EmptyFilter)},
                      call[p].sort))
    => LET pages == call[p].value
       IN  /\ \A i, j \in DOMAIN pages : i # j => Range(pages[i]) \cap Range(pages[j]) = {}
           /\ \A i \in DOMAIN pages : Cardinality(Range(pages[i])) = Len(pages[i])
           /\ UNION {Range(pages[i]) : i \in DOMAIN pages}
                = {discount_stores[i] : i \in ScopedIndexes(discount_stores, call[p].tenant, EmptyFilter)}

\* pages 1 and 2 with limit 2 of a tenant with four store discounts
C9_Witness ==
  \E p \in Procs :
    /\ call[p].pc = "done"
    /\ call[p].op = "discount_store_pages"
    /\ call[p].limit = 2
    /\ call[p].sort = DiscountKeySort
    /\ Len(call[p].value) = 2
    /\ Len(call[p].value[1]) = 2
    /\ Len(call[p].value[2]) = 2
    /\ Cardinality(ScopedIndexes(discount_stores, call[p].tenant, EmptyFilter)) = 4

\* C10: no stored store discount and no detail handed out carries a
\* discount_value outside 0.00-100.00.
C10_DiscountValueInRange ==
  /\ \A i \in DOMAIN discount_stores : validate_discount_value(discount_stores[i].discount_value)
  /\ \A p \in Procs :
       (call[p].pc = "done" /\ call[p].op = "get_category_discount_detail" /\ call[p].status = "ok")
       => validate_discount_value(call[p].value[1].discount_value)

\* ---------------------------------------------------------------- item book properties
CategoryEdits == {"add_category", "update_category", "delete_category"}
TabEdits == {"add_tab", "update_tab", "delete_tab"}
ButtonEdits == {"add_button", "update_button", "delete_button"}
NestedEdits == CategoryEdits \cup TabEdits \cup ButtonEdits

\* the stored item book a call names by tenant and id, <<>> if there is none
StoredBook(books, c) ==
  LET S == {i \in DOMAIN books :
              books[i].tenant_id = c.tenant /\ books[i].item_book_id = c.code}
  IN  IF S = {} THEN <<>> ELSE <<books[LeastOf(S)]>>

\* position of the first element of seq whose field is v, 0 if there is none
FirstWith(seq, field, v) == LeastOf({i \in DOMAIN seq : seq[i][field] = v})

\* the tabs of the category a call addresses, the buttons of the tab it addresses
AddressedCategory(book, c) == FirstWith(book.categories, "category_number", c.category_number.value)
AddressedTabs(book, c) == book.categories[AddressedCategory(book, c)].tabs
AddressedTab(book, c) == FirstWith(AddressedTabs(book, c), "tab_number", c.tab_number.value)
AddressedButtons(book, c) == AddressedTabs(book, c)[AddressedTab(book, c)].buttons

\* the level of the first ancestor of the addressed element that is missing,
\* None when every ancestor exists
MissingAncestor(found, c) ==
  IF found = <<>> THEN "item_book"
  ELSE IF c.op \in TabEdits \cup ButtonEdits /\ AddressedCategory(found[1], c) = 0 THEN "category"
  ELSE IF c.op \in ButtonEdits /\ AddressedTab(found[1], c) = 0 THEN "tab"
  ELSE None

\* the key of the element an add carries is taken in the addressed parent
KeyTaken(found, c) ==
  /\ MissingAncestor(found, c) = None
  /\ IF c.op = "add_category"
     THEN FirstWith(found[1].categories, "category_number", c.body[1].category_number) # 0
     ELSE IF c.op = "add_tab"
     THEN FirstWith(AddressedTabs(found[1], c), "tab_number", c.body[1].tab_number) # 0
     ELSE \E i \in DOMAIN AddressedButtons(found[1], c) :
            /\ AddressedButtons(found[1], c)[i].pos_x = c.body[1].pos_x
            /\ AddressedButtons(found[1], c)[i].pos_y = c.body[1].pos_y

\* C11: an add_category, add_tab or add_button whose new element has a key
\* that the addressed parent already holds raises
\* DocumentAlreadyExistsException and leaves the item books as they are.
C11_AddExistingKeyFails ==
  [][\A p \in Procs :
       (/\ Starts(p, {"add_category", "add_tab", "add_button"})
        /\ KeyTaken(StoredBook(item_books, call'[p]), call'[p]))
       => /\ call'[p].pc = "done"
          /\ call'[p].status = "DocumentAlreadyExistsException"
          /\ item_books' = item_books]_vars

\* a second button at (2,3) in tab 1 of category 1 was refused
C11_Witness ==
  \E p \in Procs :
    /\ call[p].pc = "done"
    /\ call[p].op = "add_button"
    /\ call[p].status = "DocumentAlreadyExistsException"
    /\ call[p].category_number.value = 1
    /\ call[p].tab_number.value = 1
    /\ call[p].body[1].pos_x = 2
    /\ call[p].body[1].pos_y = 3
    /\ StoredBook(item_books, call[p]) # <<>>

UniqueIn(seq, Key(_)) == \A i, j \in DOMAIN seq : Key(seq[i]) = Key(seq[j]) => i = j

\* C12: in every stored item book category_number is unique within the book,
\* tab_number within each category and (pos_x, pos_y) within each tab.
C12_UniqueNestingKeys ==
  \A b \in DOMAIN item_books :
    LET CategoryKey(category) == category.category_number
        TabKey(tab) == tab.tab_number
        ButtonKey(button) == <<button.pos_x, button.pos_y>>
        categories == item_books[b].categories
    IN  /\ UniqueIn(categories, CategoryKey)
        /\ \A i \in DOMAIN categories :
             /\ UniqueIn(categories[i].tabs, TabKey)
             /\ \A j \in DOMAIN categories[i].tabs :
                  UniqueIn(categories[i].tabs[j].buttons, ButtonKey)

\* C13: a nested edit with a missing item book, category ancestor or tab
\* ancestor raises DocumentNotFoundException naming the first missing level
\* and leaves the item books as they are.
C13_MissingAncestorFails ==
  [][\A p \in Procs :
       (/\ Starts(p, NestedEdits)
        /\ MissingAncestor(StoredBook(item_books, call'[p]), call'[p]) # None)
       => /\ call'[p].pc = "done"
          /\ call'[p].status = "DocumentNotFoundException"
          /\ call'[p].missing = MissingAncestor(StoredBook(item_books, call'[p]), call'[p])
          /\ item_books' = item_books]_vars

\* a tab update in a category the book does not have was refused, while
\* another category of the book has a tab with that number
C13_Witness ==
  \E p \in Procs :
    /\ call[p].pc = "done"
    /\ call[p].op = "update_tab"
    /\ call[p].status = "DocumentNotFoundException"
    /\ call[p].missing = "category"
    /\ StoredBook(item_books, call[p]) # <<>>
    /\ \E i \in DOMAIN StoredBook(item_books, call[p])[1].categories :
         FirstWith(StoredBook(item_books, call[p])[1].categories[i].tabs, "tab_number",
                   call[p].tab_number.value) # 0

\* the categories of a list whose number is not n, in their order
WithoutCategory(categories, n) ==
  LET Test(category) == category.category_number # n IN SelectSeq(categories, Test)

\* C14: delete_category(book_id, n) on a book that has a category n goes
\* through, and the document it writes back is the book without that
\* category and its subtree: same id and title, the other categories as
\* they were and in their order.
C14_DeleteCategoryFrame ==
  [][\A p \in Procs :
       /\ (/\ Starts(p, {"delete_category"})
           /\ MissingAncestor(StoredBook(item_books, call'[p]), call'[p]) = None
           /\ AddressedCategory(StoredBook(item_books, call'[p])[1], call'[p]) # 0)
          => /\ call'[p].pc = "persist"
             /\ call'[p].doc[1] =
                  [StoredBook(item_books, call'[p])[1] EXCEPT
                     !.categories = RemoveAt(@, AddressedCategory(StoredBook(item_books, call'[p])[1], call'[p]))]
       /\ (call[p].pc = "persist" /\ call[p].op = "delete_category" /\ Steps(p))
          => /\ StoredBook(item_books', call[p]) = call[p].doc
             /\ Len(item_books') = Len(item_books)]_vars

\* the item book with element e appended to the list the add addresses
WithAppended(book, c) ==
  IF c.op = "add_category" THEN [book EXCEPT !.categories = Append(@, c.body[1])]
  ELSE IF c.op = "add_tab"
  THEN [book EXCEPT !.categories[AddressedCategory(book, c)].tabs = Append(@, c.body[1])]
  ELSE [book EXCEPT !.categories[AddressedCategory(book, c)].tabs[AddressedTab(book, c)].buttons
                      = Append(@, c.body[1])]

\* C15: a new item book created without categories is stored empty; an add
\* of a category, tab or button that goes through stores the book with
\* exactly the supplied element appended to the addressed list; a fetch by
\* id returns the stored book.  So create, add Category(1), add Tab(1), add
\* Button(0,0), fetch returns one category with one tab with one button, each
\* as supplied.
C15_RoundTrip ==
  [][\A p \in Procs :
       /\ (Starts(p, {"create_item_book"}))
          => StoredBook(item_books', call'[p]) = call'[p].value
       /\ (/\ Starts(p, {"add_category", "add_tab", "add_button"})
           /\ ~KeyTaken(StoredBook(item_books, call'[p]), call'[p])
           /\ MissingAncestor(StoredBook(item_books, call'[p]), call'[p]) = None)
          => /\ call'[p].pc = "persist"
             /\ call'[p].doc[1] = WithAppended(StoredBook(item_books, call'[p])[1], call'[p])
       /\ (/\ call[p].pc = "persist"
           /\ call[p].op \in {"add_category", "add_tab", "add_button"}
           /\ Steps(p))
          => /\ call'[p].status = "ok"
             /\ StoredBook(item_books', call[p]) = call[p].doc
             /\ call'[p].value = call[p].doc
       /\ (Starts(p, {"get_item_book_by_id"}) /\ StoredBook(item_books, call'[p]) # <<>>)
          => /\ call'[p].status = "ok"
             /\ call'[p].value = StoredBook(item_books, call'[p])]_vars

\* the fetch returned one category 1 with one tab 1 with one button at (0,0)
C15_Witness ==
  \E p \in Procs :
    /\ call[p].pc = "done"
    /\ call[p].op = "get_item_book_by_id"
    /\ call[p].status = "ok"
    /\ call[p].value[1].categories =
         <<ItemBookCategory(1, "y",
             <<ItemBookTab(1, "x", <<ItemBookButton(0, 0, "i1")>>)>>)>>

\* C16: update_category_in_item_book with category_number n in the path goes
\* through exactly when the book has a category n, and then writes the book
\* back with the first such category replaced by the body at its position
\* and everything else as it was; otherwise it raises
\* DocumentNotFoundException.
C16_UpdateCategoryInPlace ==
  [][\A p \in Procs :
       (Starts(p, {"update_category"}) /\ StoredBook(item_books, call'[p]) # <<>>)
       => LET book == StoredBook(item_books, call'[p])[1]
              ci == AddressedCategory(book, call'[p])
          IN  IF ci # 0
              THEN /\ call'[p].pc = "persist"
                   /\ call'[p].doc[1] = [book EXCEPT !.categories[ci] = call'[p].body[1]]
              ELSE /\ call'[p].pc = "done"
                   /\ call'[p].status = "DocumentNotFoundException"]_vars

\* ---------------------------------------------------------------- cart properties
\* C18: for no category code has the repository fetched the detail
\* successfully from the master-data service more than once: after a call
\* for the code has returned, later calls for it are answered from the cache.
C18_OneFetchPerCode ==
  \A category_code \in CartCategoryCodes :
    Cardinality({i \in DOMAIN upstream_requests :
                   /\ upstream_requests[i].category_code = category_code
                   /\ upstream_requests[i].status = "ok"}) <= 1

\* C19: when client.get raises, the call raises NotFoundException if the
\* exception carries status_code 404 and RepositoryException otherwise, and
\* the cache holds the documents it held before the call.
C19_UpstreamFailure ==
  [][\A p \in Procs :
       /\ (Starts(p, {"cart_get_category_discount_detail"}) /\ call'[p].pc = "request")
          => CacheList(category_discount_detail_documents')
               = CacheList(category_discount_detail_documents)
       /\ (/\ call[p].pc = "request"
           /\ Steps(p)
           /\ call'[p].error # <<>>)
          => /\ call'[p].pc = "done"
             /\ call'[p].status =
                  (IF call'[p].error[1].status_code = <<404>>
                   THEN "NotFoundException" ELSE "RepositoryException")
             /\ call'[p].value = NoDoc
             /\ category_discount_detail_documents' = category_discount_detail_documents]_vars

\* a 404 was turned into NotFoundException while the cache held a document
C19_Witness ==
  \E p \in Procs :
    /\ call[p].pc = "done"
    /\ call[p].op = "cart_get_category_discount_detail"
    /\ call[p].status = "NotFoundException"
    /\ call[p].error = <<[status_code |-> <<404>>]>>
    /\ CacheList(category_discount_detail_documents) # <<>>

\* what the caller of an update supplied: the body of a PUT request, or the
\* update_data of a call of the service
Supplied(c) == IF "body" \in DOMAIN c THEN c.body ELSE c.update_data

\* C20: an update of an existing category discount or store discount gives
\* the fields the caller supplied their new values, leaves every other field
\* of the document and every other document as they were, and returns the
\* updated document as it is stored.
C20_UpdateSuppliedFieldsOnly ==
  [][\A p \in Procs :
       LET c == call[p]
           category == c.op = "update_category_discount"
           before == IF category THEN category_discounts ELSE discount_stores
           after == IF category THEN category_discounts' ELSE discount_stores'
           query_filter == IF category THEN category_make_query_filter(c.tenant, c.code)
                           ELSE discount_make_query_filter(c.tenant, c.code)
           key == IF category THEN "category_code" ELSE "discount_code"
       IN  /\ (Steps(p) /\ c.pc = "update" /\ MatchingIndexes(before, query_filter) # {}) =>
                /\ Len(after) = Len(before)
                /\ \A j \in DOMAIN before : \A f \in DOMAIN before[j] :
                     after[j][f] =
                       IF j = FirstMatch(before, query_filter) /\ f \in DOMAIN Supplied(c)
                       THEN Supplied(c)[f] ELSE before[j][f]
                /\ category => discount_stores' = discount_stores
                /\ ~category => category_discounts' = category_discounts
           /\ (Steps(p) /\ c.pc = "refetch") =>
                /\ call'[p].status = "ok"
                /\ call'[p].value # NoDoc
                /\ call'[p].value[1] \in Range(before)
                /\ call'[p].value[1].tenant_id = c.tenant
                /\ call'[p].value[1][key] = c.code
  ]_vars

\* the step leaves the three collections of the master-data service alone
StoreUntouched == UNCHANGED <<category_discounts, discount_stores, item_books>>

\* C17: in every handler the tenant check is the first thing a request does
\* and the service resolution the second; they touch no collection; a
\* request whose credentials are of another tenant than its path ends there,
\* rejected; and every later step of a request, each service and repository
\* operation, belongs to a request that has passed both.
C17_TenantCheckFirst ==
  [][\A p \in Procs : Steps(p) =>
       /\ call[p].pc = "free" =>
            /\ call'[p].log = <<"verify_tenant_id">>
            /\ StoreUntouched
            /\ call'[p].tenant # call'[p].tenant_id_with_security =>
                 call'[p].pc = "done" /\ call'[p].status = "rejected"
       /\ call[p].pc = "verified" =>
            /\ call'[p].pc = "resolved"
            /\ call'[p].log = <<"verify_tenant_id", "get_service_async">>
            /\ StoreUntouched
       /\ call[p].pc \notin {"free", "verified"} =>
            /\ call[p].pc # "done"
            /\ Len(call[p].log) >= 2
            /\ SubSeq(call[p].log, 1, 2) = <<"verify_tenant_id", "get_service_async">>
            /\ SubSeq(call'[p].log, 1, Len(call[p].log)) = call[p].log
  ]_vars

\* a request with credentials of another tenant was rejected while the store
\* held documents it addressed
C17_Witness ==
  \E p \in Procs :
    /\ call[p].pc = "done"
    /\ call[p].status = "rejected"
    /\ call[p].op = "delete_button_from_tab_in_category_in_item_book"
    /\ call[p].tenant = "T1"
    /\ call[p].tenant_id_with_security = "T2"
    /\ call[p].log = <<"verify_tenant_id">>
    /\ item_books = <<HandlerItemBook>>
    /\ category_discounts # <<>>

\* C21: a delete that succeeds under tenant t removes the document of (t, code):
\* after it get-by-code of the code under t finds nothing (so that a further
\* delete raises DocumentNotFoundException), and every document that does not
\* match (t, code) is still stored, in the same order.
C21_DeleteRemovesTheMatch ==
  [][\A p \in Procs :
       (Steps(p) /\ call[p].pc = "delete" /\ call'[p].status = "ok") =>
         LET c == call[p]
             category == c.op = "delete_category_discount"
             before == IF category THEN category_discounts ELSE discount_stores
             after == IF category THEN category_discounts' ELSE discount_stores'
             query_filter == IF category THEN category_make_query_filter(c.tenant, c.code)
                             ELSE discount_make_query_filter(c.tenant, c.code)
             Other(doc) == ~Matches(doc, query_filter)
         IN  /\ get_one_async(after, query_filter) = NoDoc
             /\ SelectSeq(after, Other) = SelectSeq(before, Other)
             /\ Len(after) = Len(before) - 1
             /\ category => discount_stores' = discount_stores
             /\ ~category => category_discounts' = category_discounts
  ]_vars

\* C23: an update leaves the natural key and the tenant_id of the document it
\* targets as they were, whatever update_data holds, and the document is
\* still the one get-by-code of the code returns.
C23_UpdateKeepsIdentifier ==
  [][\A p \in Procs :
       LET c == call[p]
           category == c.op = "update_category_discount"
           before == IF category THEN category_discounts ELSE discount_stores
           after == IF category THEN category_discounts' ELSE discount_stores'
           query_filter == IF category THEN category_make_query_filter(c.tenant, c.code)
                           ELSE discount_make_query_filter(c.tenant, c.code)
           key == IF category THEN "category_code" ELSE "discount_code"
           i == FirstMatch(before, query_filter)
       IN  (Steps(p) /\ c.pc = "update" /\ MatchingIndexes(before, query_filter) # {}) =>
             /\ Len(after) = Len(before)
             /\ after[i].tenant_id = before[i].tenant_id
             /\ after[i][key] = before[i][key]
             /\ get_one_async(after, query_filter) = <<after[i]>>
  ]_vars

\* C22: a filtered list call of a repository leaves the query_filter dict of
\* its caller with the keys and values it had before the call.
C22_CallerFilterUntouched ==
  [][\A p \in Procs :
       Starts(p, {"get_category_discount_by_filter_paginated",
                  "get_discount_store_by_filter_paginated"})
       => call'[p].query_filter_after = call'[p].query_filter]_vars

RepositoryCreates == {"repository_create_category_discount", "repository_create_discount_store"}
RepositoryReplaces == {"repository_replace_category_discount", "repository_replace_discount_store"}

\* C24: a create of the repository of tenant t appends the supplied document
\* with tenant_id = t and shard_key = t, whatever tenant_id and shard_key it
\* carried, and returns that document; a create whose insert reports failure
\* raises, returns no document and stores none.
C24_CreateStampsTenant ==
  [][\A p \in Procs : Starts(p, RepositoryCreates) =>
       LET c == call'[p]
           category == c.op = "repository_create_category_discount"
           before == IF category THEN category_discounts ELSE discount_stores
           after == IF category THEN category_discounts' ELSE discount_stores'
           stored == after[Len(after)]
       IN  IF c.status = "ok"
           THEN /\ Len(after) = Len(before) + 1
                /\ SubSeq(after, 1, Len(before)) = before
                /\ stored.tenant_id = c.tenant
                /\ stored.shard_key = c.tenant
                /\ \A f \in DOMAIN stored \ {"tenant_id", "shard_key"} : stored[f] = c.document[f]
                /\ c.value = <<stored>>
           ELSE /\ c.status = "Exception"
                /\ c.value = NoDoc
                /\ after = before
  ]_vars

\* a document that carried the tenant_id of another tenant was created, and a
\* create whose insert failed has raised
C24_Witness ==
  \E p \in Procs :
    /\ call[p].pc = "done"
    /\ call[p].op = "repository_create_category_discount"
    /\ call[p].status = "ok"
    /\ call[p].tenant = "T1"
    /\ call[p].document.tenant_id = "T2"
    /\ call[p].document.shard_key = "T2"
    /\ call[p].value[1].tenant_id = "T1"
    /\ Len(category_discounts) >= 2

\* C27: a replace that succeeds on the repository of tenant t for a code
\* leaves a document of tenant_id t and of that code where the replaced one
\* was, whatever the supplied document carried; get-by-code of the code
\* under t returns it, and no two documents share (tenant_id, natural key).
C27_ReplaceKeepsIdentifier ==
  [][\A p \in Procs : (Starts(p, RepositoryReplaces) /\ call'[p].status = "ok") =>
       LET c == call'[p]
           category == c.op = "repository_replace_category_discount"
           before == IF category THEN category_discounts ELSE discount_stores
           after == IF category THEN category_discounts' ELSE discount_stores'
           key == IF category THEN "category_code" ELSE "discount_code"
           query_filter == IF category THEN category_make_query_filter(c.tenant, c.code)
                           ELSE discount_make_query_filter(c.tenant, c.code)
           i == FirstMatch(before, query_filter)
       IN  /\ after[i].tenant_id = c.tenant
           /\ after[i][key] = c.code
           /\ get_one_async(after, query_filter) = <<after[i]>>
           /\ UniqueKeys(before, key) => UniqueKeys(after, key)
  ]_vars

\* the primed HasDiscountStore: tenant t has a store discount of the code
\* after the step
HasDiscountStoreNext(t, discount_code) ==
  \E i \in DOMAIN discount_stores' :
    discount_stores'[i].tenant_id = t /\ discount_stores'[i].discount_code = discount_code

\* C25: a category discount is created whether or not a store discount has
\* its discount_code, and a store discount is deleted whether or not category
\* discounts name it.  Once it is deleted the tenant has no store discount of
\* that code until one is created again, and as long as the tenant has none a
\* detail call for a category discount that names the code raises
\* DocumentNotFoundException.
C25_IntegrityCheckedOnRead ==
  [][\A p \in Procs :
       /\ (Starts(p, {"create_category_discount"})
           /\ ~HasCategoryDiscount(call'[p].tenant, call'[p].code))
          => call'[p].pc = "insert"
       /\ (Steps(p) /\ call[p].pc = "insert" /\ call[p].op = "create_category_discount")
          => /\ call'[p].status = "ok"
             /\ category_discounts' = Append(category_discounts, call'[p].value[1])
             /\ call'[p].value[1].discount_code = call[p].doc.discount_code
       /\ (Starts(p, {"delete_discount_store"})
           /\ HasDiscountStore(call'[p].tenant, call'[p].code))
          => call'[p].pc = "delete"
       /\ (Steps(p) /\ call[p].pc = "delete" /\ call[p].op = "delete_discount_store")
          => /\ call'[p].status = "ok"
             /\ ~HasDiscountStoreNext(call[p].tenant, call[p].code)
       /\ (Steps(p) /\ call[p].pc = "lookup"
           /\ ~HasDiscountStore(call[p].tenant, call[p].master_discount_code))
          => /\ call'[p].pc = "done"
             /\ call'[p].status = "DocumentNotFoundException"
       /\ \A t \in Tenants, d \in DiscountCodes :
            (Steps(p) /\ ~HasDiscountStore(t, d) /\ HasDiscountStoreNext(t, d))
            => /\ call[p].pc = "insert"
               /\ call[p].op = "create_discount_store"
               /\ call[p].tenant = t
               /\ call[p].code = d
  ]_vars

\* C26: a detail request that its handler answers with an envelope is answered
\* with success true and code 200; when the tenant has no category discount
\* of the requested code the data is null and the message says not found, and
\* a payload or the found message is answered only when it has one.
C26_DetailEnvelope ==
  \A p \in Procs :
    (/\ call[p].pc = "done"
     /\ call[p].op = "get_category_discount_detail"
     /\ call[p].status = "ok")
    => LET response == call[p].response[1]
       IN  /\ response.success
           /\ response.code = 200
           /\ ~HasCategoryDiscount(call[p].tenant, call[p].code)
                => /\ response.data = NoDoc
                   /\ response.message = "not found"
           /\ (response.data # NoDoc \/ response.message = "found successfully")
                => HasCategoryDiscount(call[p].tenant, call[p].code)

\* C28: the cache list of the repository instance never holds two entries
\* with the same category_code.
C28_CacheHasNoDuplicates ==
  LET list == CacheList(category_discount_detail_documents)
  IN  \A i, j \in DOMAIN list : i # j => list[i].category_code # list[j].category_code

\* C29: a document the cart repository returns for category code c is the
\* detail of c under the tenant of the repository: its category_code is c and
\* its tenant_id is that tenant, from the cache or from the master-data service.
C29_ReturnedDetailIsTheRequested ==
  \A p \in Procs :
    (/\ call[p].pc = "done"
     /\ call[p].op = "cart_get_category_discount_detail"
     /\ call[p].status = "ok")
    => /\ Len(call[p].value) = 1
       /\ call[p].value[1].category_code = call[p].code
       /\ call[p].value[1].tenant_id = call[p].tenant

\* the stored item book of add request c holds what c added
EditPersisted(c) ==
  LET found == repo_get_item_book_async(item_books, c.tenant, c.code)
  IN  /\ found # NoDoc
      /\ \E i \in DOMAIN found[1].categories :
           LET category == found[1].categories[i]
           IN  CASE c.op = "add_category" ->
                      category.category_number = c.body[1].category_number
                 [] c.op = "add_tab" ->
                      /\ category.category_number = c.category_number.value
                      /\ \E j \in DOMAIN category.tabs :
                           category.tabs[j].tab_number = c.body[1].tab_number
                 [] c.op = "add_button" ->
                      /\ category.category_number = c.category_number.value
                      /\ \E j \in DOMAIN category.tabs :
                           /\ category.tabs[j].tab_number = c.tab_number.value
                           /\ \E k \in DOMAIN category.tabs[j].buttons :
                                /\ category.tabs[j].buttons[k].pos_x = c.body[1].pos_x
                                /\ category.tabs[j].buttons[k].pos_y = c.body[1].pos_y
                 [] OTHER -> TRUE

\* C30: when two add requests on the same item book have both succeeded, the
\* stored book holds what each of them added.
C30_NoLostEdit ==
  \A p, q \in Procs :
    (/\ p # q
     /\ call[p].pc = "done" /\ call[q].pc = "done"
     /\ call[p].op \in {"add_category", "add_tab", "add_button"}
     /\ call[q].op \in {"add_category", "add_tab", "add_button"}
     /\ call[p].status = "ok" /\ call[q].status = "ok"
     /\ call[p].tenant = call[q].tenant /\ call[p].code = call[q].code)
    => EditPersisted(call[p]) /\ EditPersisted(call[q])

====
